---- MODULE Spec2Model ----
(***************************************************************************)
(* A model of the smallworld service-graph analyser: GraphBuilder (the     *)
(* directed dependency graph), MetricsCalculator (path lengths,           *)
(* betweenness, hubs and bottlenecks, the objective) and                  *)
(* ShortcutOptimizer (candidate generation, evaluation, ranking).         *)
(*                                                                         *)
(* Floating-point values are modelled as exact rationals <<num, den>>     *)
(* with den > 0, kept in lowest terms.                                    *)
(***************************************************************************)
EXTENDS Integers, Sequences, FiniteSets, TLC

(***************************************************************************)
(* Bounds of the model.                                                    *)
(***************************************************************************)
\* the largest number of edges a graph is grown to
MaxEdges == 3
\* the largest number of edges a graph of at most three nodes is grown to
MaxDenseEdges == 4
\* the largest k passed to find_shortcuts and get_removal_candidates
MaxK == 2
\* the largest number of completed optimizations of the first user, and of
\* any other user
MaxOptimizations == 101
MaxOtherOptimizations == 1
\* the most points the calls of POST /users/{user_id}/score hand one user
\* that has been handed fewer than that
MaxPoints == 50
\* the largest number of simulations recorded, and of record_simulation
\* calls suspended at one time
MaxHistory == 2
MaxCalls == 2

(***************************************************************************)
(* Exact rational arithmetic, standing for Python floats.                  *)
(***************************************************************************)
Abs(x) == IF x < 0 THEN -x ELSE x

RECURSIVE Gcd(_, _)
Gcd(a, b) == IF b = 0 THEN a ELSE Gcd(b, a % b)

Norm(n, d) ==
    LET g == Gcd(Abs(n), Abs(d))
        s == IF d < 0 THEN -1 ELSE 1
    IN  IF n = 0 THEN <<0, 1>> ELSE <<(s * n) \div g, (s * d) \div g>>

R(n) == <<n, 1>>
Frac(n, d) == Norm(n, d)
RAdd(x, y) == Norm(x[1] * y[2] + y[1] * x[2], x[2] * y[2])
RSub(x, y) == Norm(x[1] * y[2] - y[1] * x[2], x[2] * y[2])
RMul(x, y) == Norm(x[1] * y[1], x[2] * y[2])
RDiv(x, y) == Norm(x[1] * y[2], x[2] * y[1])
RLt(x, y) == x[1] * y[2] < y[1] * x[2]
RLe(x, y) == x[1] * y[2] <= y[1] * x[2]
RMin(x, y) == IF RLe(x, y) THEN x ELSE y
RMax(x, y) == IF RLe(x, y) THEN y ELSE x

RECURSIVE RSum(_, _)
\* the sum of f[x] over x in S
RSum(f, S) ==
    IF S = {} THEN R(0)
    ELSE LET x == CHOOSE x \in S : TRUE IN RAdd(f[x], RSum(f, S \ {x}))

RECURSIVE RMaxOf(_, _)
\* max(f[x] for x in S, default=0.0) for non-negative f
RMaxOf(f, S) ==
    IF S = {} THEN R(0)
    ELSE LET x == CHOOSE x \in S : TRUE IN RMax(f[x], RMaxOf(f, S \ {x}))

RECURSIVE ISum(_, _)
ISum(f, S) ==
    IF S = {} THEN 0
    ELSE LET x == CHOOSE x \in S : TRUE IN f[x] + ISum(f, S \ {x})

Range(s) == {s[i] : i \in 1..Len(s)}

\* f itself, as an explicitly enumerated function
Tabulate(f) == f @@ <<>>

(***************************************************************************)
(* The graph: nx.DiGraph.  nodes is the node list in insertion order,     *)
(* zone the "zone" attribute of each node, edges the set of ordered       *)
(* pairs, attr the attribute dictionary of each edge.                      *)
(***************************************************************************)
Names == {"a", "b", "c", "d"}

\* ServiceData.zone is None when not given; a node that an edge auto-created
\* has no "zone" key at all, and .get("zone", "") then gives "".
NoneZone == "None"
NoZoneKey == ""
Zones == {"east", "west"}
Truthy(z) == z # NoneZone /\ z # NoZoneKey

EmptyGraph == [nodes |-> <<>>, zone |-> <<>>, edges |-> {}, attr |-> <<>>]

NodeSet(G) == Range(G.nodes)
number_of_nodes(G) == Len(G.nodes)
number_of_edges(G) == Cardinality(G.edges)
has_edge(G, s, t) == <<s, t>> \in G.edges

\* DiGraph.add_node(name, zone=z): a new node goes to the end of the node
\* list; for an existing node the attributes are updated.
add_node(G, n, z) ==
    IF n \in NodeSet(G)
    THEN [G EXCEPT !.zone = [x \in NodeSet(G) |-> IF x = n THEN z ELSE G.zone[x]]]
    ELSE [G EXCEPT !.nodes = Append(G.nodes, n),
                   !.zone = [x \in NodeSet(G) \cup {n} |-> IF x = n THEN z ELSE G.zone[x]]]

\* DiGraph.add_node(name) with no attributes: an existing node is untouched.
add_bare_node(G, n) ==
    IF n \in NodeSet(G) THEN G ELSE add_node(G, n, NoZoneKey)

\* DiGraph.add_edge(s, t, **attrs): missing endpoints are created, source
\* first; the attributes of an existing edge are overwritten.
add_edge(G, s, t, a) ==
    LET G1 == add_bare_node(add_bare_node(G, s), t)
        E1 == G1.edges \cup {<<s, t>>}
    IN  [G1 EXCEPT !.edges = E1,
                   !.attr = [e \in E1 |-> IF e = <<s, t>> THEN a ELSE G.attr[e]]]

\* DiGraph.remove_edge(s, t), for an edge that exists.
nx_remove_edge(G, s, t) ==
    LET E1 == G.edges \ {<<s, t>>}
    IN  [G EXCEPT !.edges = E1, !.attr = [e \in E1 |-> G.attr[e]]]

(***************************************************************************)
(* Shortest paths (networkx, unweighted breadth-first search).             *)
(***************************************************************************)
RECURSIVE BfsFrom(_, _, _, _, _)
BfsFrom(G, frontier, seen, d, acc) ==
    IF frontier = {} THEN acc
    ELSE LET next == {w \in NodeSet(G) \ seen : \E v \in frontier : <<v, w>> \in G.edges}
         IN  BfsFrom(G, next, seen \cup next, d + 1, acc @@ [w \in next |-> d + 1])

\* nx.single_source_shortest_path_length(G, s): hop distance to every node
\* reachable from s, s itself included at distance 0.
single_source_shortest_path_length(G, s) ==
    BfsFrom(G, {s}, {s}, 0, s :> 0)

\* all distances at once: AllDist(G)[s] is the map above
AllDist(G) == Tabulate([s \in NodeSet(G) |-> single_source_shortest_path_length(G, s)])

HasPath(D, s, t) == t \in DOMAIN D[s]

RECURSIVE WeakFrom(_, _)
WeakFrom(G, seen) ==
    LET next == {w \in NodeSet(G) \ seen :
                    \E v \in seen : <<v, w>> \in G.edges \/ <<w, v>> \in G.edges}
    IN  IF next = {} THEN seen ELSE WeakFrom(G, seen \cup next)

\* nx.is_weakly_connected(G), for a graph with at least one node
is_weakly_connected(G) ==
    WeakFrom(G, {G.nodes[1]}) = NodeSet(G)

\* nx.strongly_connected_components(G), as a set of node sets
strongly_connected_components(G, D) ==
    {{t \in NodeSet(G) : HasPath(D, s, t) /\ HasPath(D, t, s)} : s \in NodeSet(G)}

\* nx.is_strongly_connected(G)
is_strongly_connected(G, D) ==
    \A s, t \in NodeSet(G) : HasPath(D, s, t)

\* max(nx.strongly_connected_components(G), key=len).  Components of equal
\* largest size are told apart only by the library's traversal order.
largest_scc(G, D) ==
    LET C == strongly_connected_components(G, D)
    IN  CHOOSE c \in C : \A c2 \in C : Cardinality(c2) <= Cardinality(c)

(***************************************************************************)
(* MetricsCalculator.                                                       *)
(***************************************************************************)
\* hub_threshold * 100 and bottleneck_threshold * 100, the percentiles
HubPercentile == 70
BottleneckPercentile == 80

RECURSIVE Sigma(_, _, _, _)
\* the number of shortest paths from s to t (t reachable from s)
Sigma(G, D, s, t) ==
    IF t = s THEN 1
    ELSE LET P == {v \in DOMAIN D[s] : <<v, t>> \in G.edges /\ D[s][v] + 1 = D[s][t]}
         IN  ISum([v \in P |-> Sigma(G, D, s, v)], P)

\* Sigma for every ordered pair joined by a path
SigmaTable(G, D) ==
    Tabulate([p \in {q \in NodeSet(G) \X NodeSet(G) : HasPath(D, q[1], q[2])} |->
                Sigma(G, D, p[1], p[2])])

\* the ordered pairs (s, t), s # v # t, with a shortest path through v
PairsThrough(G, D, v) ==
    {p \in NodeSet(G) \X NodeSet(G) :
        /\ p[1] # p[2] /\ p[1] # v /\ p[2] # v
        /\ HasPath(D, p[1], v) /\ HasPath(D, v, p[2]) /\ HasPath(D, p[1], p[2])
        /\ D[p[1]][v] + D[v][p[2]] = D[p[1]][p[2]]}

BetweennessOf(sig, v, n, P) ==
    LET raw == RSum([p \in P |-> Frac(sig[<<p[1], v>>] * sig[<<v, p[2]>>], sig[p])], P)
    IN  IF n > 2 THEN RDiv(raw, R((n - 1) * (n - 2))) ELSE raw

BetweennessWith(G, D, sig) ==
    Tabulate([v \in NodeSet(G) |->
                BetweennessOf(sig, v, number_of_nodes(G), PairsThrough(G, D, v))])

\* nx.betweenness_centrality(G, normalized=True) of a directed graph: the
\* sum over ordered pairs (s, t), s # v # t, of the fraction of shortest
\* s-t paths through v, scaled by 1/((n-1)(n-2)) when n > 2.
betweenness_centrality(G, D) == BetweennessWith(G, D, SigmaTable(G, D))

\* the sum of the distances over a set of ordered pairs
TotalLength(D, P) == ISum([p \in P |-> D[p[1]][p[2]]], P)

\* nx.average_shortest_path_length of the subgraph induced by a strongly
\* connected set S of more than one node
average_shortest_path_length(D, S) ==
    Frac(TotalLength(D, {p \in S \X S : p[1] # p[2]}),
         Cardinality(S) * (Cardinality(S) - 1))

\* the second half of _calculate_average_path_length: the mean over P, the
\* ordered pairs of distinct nodes joined by a path
ReachableAverage(D, P) ==
    IF Cardinality(P) > 0 THEN Frac(TotalLength(D, P), Cardinality(P)) ELSE R(0)

AveragePathLengthWith(G, D, scc) ==
    IF is_weakly_connected(G) /\ Cardinality(scc) > 1
    THEN average_shortest_path_length(D, scc)
    ELSE ReachableAverage(D, {p \in NodeSet(G) \X NodeSet(G) :
                                 p[1] # p[2] /\ HasPath(D, p[1], p[2])})

\* the mean over all reachable pairs whatever the components are
AllReachableAverage(G, D) ==
    ReachableAverage(D, {p \in NodeSet(G) \X NodeSet(G) :
                            p[1] # p[2] /\ HasPath(D, p[1], p[2])})

\* MetricsCalculator._calculate_average_path_length
calculate_average_path_length(G, D) == AveragePathLengthWith(G, D, largest_scc(G, D))

\* nx.diameter of the subgraph induced by a strongly connected set S
nx_diameter(D, S) ==
    CHOOSE m \in 0..Cardinality(S) :
        /\ \A s, t \in S : D[s][t] <= m
        /\ \E s, t \in S : D[s][t] = m

DiameterWith(G, D, scc) ==
    IF is_strongly_connected(G, D) THEN nx_diameter(D, NodeSet(G))
    ELSE IF Cardinality(scc) > 1 THEN nx_diameter(D, scc)
    ELSE 0

\* the longest shortest path of the whole graph, over the pairs joined by
\* a path, whatever the components are
LongestShortestPath(G, D) ==
    CHOOSE m \in 0..number_of_nodes(G) :
        /\ \A s, t \in NodeSet(G) : HasPath(D, s, t) => D[s][t] <= m
        /\ \E s, t \in NodeSet(G) : HasPath(D, s, t) /\ D[s][t] = m

\* MetricsCalculator._calculate_diameter
calculate_diameter(G, D) == DiameterWith(G, D, largest_scc(G, D))

RECURSIVE Insert(_, _)
Insert(sorted, x) ==
    IF sorted = <<>> THEN <<x>>
    ELSE IF RLe(x, Head(sorted)) THEN <<x>> \o sorted
    ELSE <<Head(sorted)>> \o Insert(Tail(sorted), x)

RECURSIVE SortAsc(_)
SortAsc(vals) ==
    IF vals = <<>> THEN <<>> ELSE Insert(SortAsc(Tail(vals)), Head(vals))

\* np.percentile(vals, q), linear interpolation: with the values sorted and
\* indexed from 0, the value at index (n-1)*q/100, interpolated between the
\* two neighbouring entries.
PercentileOfSorted(a, n, q) ==
    LET lo == ((n - 1) * q) \div 100
        t == Frac(((n - 1) * q) % 100, 100)
        hi == IF lo + 1 < n THEN lo + 1 ELSE lo
    IN  RAdd(a[lo + 1], RMul(RSub(a[hi + 1], a[lo + 1]), t))

\* the lower of the two neighbouring entries, with no interpolation
PercentileLower(vals, q) == SortAsc(vals)[((Len(vals) - 1) * q) \div 100 + 1]

percentile(vals, q) == PercentileOfSorted(SortAsc(vals), Len(vals), q)

in_degree(G, v) == Cardinality({e \in G.edges : e[2] = v})
out_degree(G, v) == Cardinality({e \in G.edges : e[1] = v})

\* the total degree of every node
TotalDegrees(G) ==
    Tabulate([v \in NodeSet(G) |-> in_degree(G, v) + out_degree(G, v)])

\* MetricsCalculator._identify_hubs_and_bottlenecks, given the two thresholds
NodeMetricsWith(G, deg, bc, hub_degree_threshold, bottleneck_threshold) ==
    Tabulate([v \in NodeSet(G) |->
        [name |-> v,
         in_degree |-> in_degree(G, v),
         out_degree |-> out_degree(G, v),
         total_degree |-> deg[v],
         betweenness_centrality |-> bc[v],
         is_hub |-> RLe(hub_degree_threshold, R(deg[v])),
         is_bottleneck |-> RLe(bottleneck_threshold, bc[v])]])

\* the node metrics from the degrees and the betweenness values
NodeMetricsFrom(G, deg, bc) ==
    NodeMetricsWith(G, deg, bc,
        percentile([i \in 1..Len(G.nodes) |-> R(deg[G.nodes[i]])], HubPercentile),
        percentile([i \in 1..Len(G.nodes) |-> bc[G.nodes[i]]], BottleneckPercentile))

\* MetricsCalculator._calculate_node_metrics followed by
\* _identify_hubs_and_bottlenecks: one record per node.
calculate_node_metrics(G, D) ==
    NodeMetricsFrom(G, TotalDegrees(G), betweenness_centrality(G, D))

\* GraphMetrics(): every field zero or false
ZeroGraphMetrics ==
    [node_count |-> 0, edge_count |-> 0, average_path_length |-> R(0),
     diameter |-> 0, is_connected |-> FALSE, max_betweenness |-> R(0),
     hub_count |-> 0, bottleneck_count |-> 0]

\* MetricsCalculator._calculate_graph_metrics and the two counts that
\* _identify_hubs_and_bottlenecks stores in it
calculate_graph_metrics(G, D, nm) ==
    [node_count |-> number_of_nodes(G),
     edge_count |-> number_of_edges(G),
     average_path_length |-> calculate_average_path_length(G, D),
     diameter |-> calculate_diameter(G, D),
     is_connected |-> is_weakly_connected(G),
     max_betweenness |->
         RMaxOf([v \in NodeSet(G) |-> nm[v].betweenness_centrality], NodeSet(G)),
     hub_count |-> Cardinality({v \in NodeSet(G) : nm[v].is_hub}),
     bottleneck_count |-> Cardinality({v \in NodeSet(G) : nm[v].is_bottleneck})]

CalculateAllWith(G, D, nm) == <<calculate_graph_metrics(G, D, nm), nm>>

CalculateAllFrom(G, D) == CalculateAllWith(G, D, calculate_node_metrics(G, D))

\* MetricsCalculator.calculate_all: <<graph_metrics, node_metrics>>
calculate_all(G) ==
    IF number_of_nodes(G) = 0 THEN <<ZeroGraphMetrics, <<>>>>
    ELSE CalculateAllFrom(G, AllDist(G))

\* the sum of the "cost" attribute over the graph's edges
total_cost(G) == RSum([e \in G.edges |-> G.attr[e].cost], G.edges)

\* MetricsCalculator.get_objective_value(alpha, beta, gamma)
ObjectiveValueOf(G, gm, alpha, beta, gamma) ==
    RAdd(RAdd(RMul(alpha, gm.average_path_length),
              RMul(beta, gm.max_betweenness)),
         RMul(gamma, total_cost(G)))

get_objective_value(G, alpha, beta, gamma) ==
    ObjectiveValueOf(G, calculate_all(G)[1], alpha, beta, gamma)

(***************************************************************************)
(* MetricsCalculator: the remaining fields of NodeMetrics and GraphMetrics, *)
(* and what each computation leaves behind when it raises.  A call is made *)
(* under a set `raises` of the computations that raise during it.          *)
(***************************************************************************)
Algorithms ==
    {"betweenness", "closeness", "clustering", "pagerank", "average_clustering",
     "average_path_length", "weighted_average_path_length", "diameter"}

\* nx.closeness_centrality(G) of a directed graph: over the nodes that reach
\* u, (r / total distance) * (r / (n - 1)), r their number; 0 when none does
closeness_centrality(G, D) ==
    Tabulate([u \in NodeSet(G) |->
        LET reach == {v \in NodeSet(G) \ {u} : HasPath(D, v, u)}
            totsp == ISum([v \in reach |-> D[v][u]], reach)
        IN  IF totsp > 0 /\ number_of_nodes(G) > 1
            THEN RMul(Frac(Cardinality(reach), totsp),
                      Frac(Cardinality(reach), number_of_nodes(G) - 1))
            ELSE R(0)])

\* graph.to_undirected(): the neighbours of v, whichever way the edge goes
Neighbours(G, v) ==
    {w \in NodeSet(G) \ {v} : <<v, w>> \in G.edges \/ <<w, v>> \in G.edges}

\* nx.clustering of the undirected graph: the share of pairs of neighbours
\* of v that are neighbours of each other, 0 for fewer than two neighbours
ClusteringOf(G, N) ==
    IF Cardinality(N) < 2 THEN R(0)
    ELSE Frac(Cardinality({p \in N \X N : p[1] # p[2] /\ p[2] \in Neighbours(G, p[1])}),
              Cardinality(N) * (Cardinality(N) - 1))

clustering(G) == Tabulate([v \in NodeSet(G) |-> ClusteringOf(G, Neighbours(G, v))])

\* nx.average_clustering of the undirected graph
average_clustering(G) ==
    RDiv(RSum(clustering(G), NodeSet(G)), R(number_of_nodes(G)))

\* nx.pagerank(G, alpha=0.85): a function of the nodes, the edges and their
\* weights, not computed here
pagerank(G) ==
    Tabulate([v \in NodeSet(G) |->
        [pagerank_of |-> v, nodes |-> G.nodes,
         weights |-> {<<e, G.attr[e].weight>> : e \in G.edges}]])

\* a fallback of 0 for every node, in the place of 1 / n
PagerankFallbackZero(G) == Tabulate([v \in NodeSet(G) |-> R(0)])

\* the value pagerank falls back to: 1.0 / number_of_nodes
PagerankFallback(G) ==
    Tabulate([v \in NodeSet(G) |-> Frac(1, number_of_nodes(G))])

\* MetricsCalculator._calculate_incoming_load / _calculate_outgoing_load
calculate_incoming_load(G) ==
    Tabulate([v \in NodeSet(G) |->
        RSum([e \in G.edges |-> G.attr[e].call_rate], {e \in G.edges : e[2] = v})])
calculate_outgoing_load(G) ==
    Tabulate([v \in NodeSet(G) |->
        RSum([e \in G.edges |-> G.attr[e].call_rate], {e \in G.edges : e[1] = v})])

\* the least element of a non-empty set of rationals
RMinOfSet(S) == CHOOSE x \in S : \A y \in S : RLe(x, y)

RECURSIVE Relax(_, _, _)
\* the weighted distances after `rounds` more rounds of relaxing every edge
Relax(G, dist, rounds) ==
    IF rounds = 0 THEN dist
    ELSE Relax(G,
               Tabulate([t \in DOMAIN dist \cup
                                {e[2] : e \in {f \in G.edges : f[1] \in DOMAIN dist}} |->
                   RMinOfSet((IF t \in DOMAIN dist THEN {dist[t]} ELSE {})
                             \cup {RAdd(dist[e[1]], G.attr[e].weight) :
                                     e \in {f \in G.edges :
                                               f[1] \in DOMAIN dist /\ f[2] = t}})]),
               rounds - 1)

\* nx.single_source_dijkstra_path_length(G, s, weight="weight")
single_source_dijkstra_path_length(G, s) ==
    Relax(G, s :> R(0), number_of_nodes(G) - 1)

\* the total and the count of _calculate_weighted_average_path_length over
\* the pairs P, given the distances W of the sources that were not skipped
WeightedAverageOver(W, P) ==
    IF Cardinality(P) > 0
    THEN RDiv(RSum([p \in P |-> W[p[1]][p[2]]], P), R(Cardinality(P)))
    ELSE R(0)

WeightedAverageWith(G, W) ==
    WeightedAverageOver(W, {p \in (DOMAIN W) \X NodeSet(G) :
                               p[1] # p[2] /\ p[2] \in DOMAIN W[p[1]]})

\* MetricsCalculator._calculate_weighted_average_path_length, for a call in
\* which Dijkstra raises NetworkXNoPath for the sources in no_path: the loop
\* catches it and continues with the next source
calculate_weighted_average_path_length(G, no_path) ==
    WeightedAverageWith(G,
        Tabulate([s \in NodeSet(G) \ no_path |->
                     single_source_dijkstra_path_length(G, s)]))

\* the float 0.0 as a small-world coefficient
ZeroCoefficient == [zero |-> TRUE]

\* random_path_length: np.log(n) / np.log(avg_degree) when avg_degree > 1,
\* else n / 2; the logarithms are kept as written, not evaluated
RandomPathLength(n, avg_degree) ==
    IF RLt(R(1), avg_degree) THEN [log_of |-> n, over_log_of |-> avg_degree]
    ELSE [half_of |-> n]

\* random_path_length == 0: log(n) is 0 only for n = 1, n / 2 only for n = 0
RandomPathLengthIsZero(n, avg_degree) ==
    IF RLt(R(1), avg_degree) THEN n = 1 ELSE n = 0

\* a quotient that is kept as written even when its numerator is 0
CoefficientAsWritten(gamma, path_length, random_path_length) ==
    [zero |-> FALSE, gamma |-> gamma, path_length |-> path_length,
     random_path_length |-> random_path_length]

\* gamma / lambda_ratio with lambda_ratio = path_length / random_path_length,
\* both positive: 0.0 when gamma is 0, else the quotient as written
CoefficientOf(gamma, path_length, random_path_length) ==
    IF gamma = R(0) THEN ZeroCoefficient
    ELSE [zero |-> FALSE, gamma |-> gamma, path_length |-> path_length,
          random_path_length |-> random_path_length]

\* MetricsCalculator._calculate_small_world_coefficient(clustering,
\* path_length, n, m)
calculate_small_world_coefficient(clustering_value, path_length, n, m) ==
    IF path_length = R(0) \/ n < 3 THEN ZeroCoefficient
    ELSE IF Frac(m, n * (n - 1)) = R(0) \/ RandomPathLengthIsZero(n, Frac(2 * m, n))
    THEN ZeroCoefficient
    ELSE CoefficientOf(RDiv(clustering_value, Frac(m, n * (n - 1))), path_length,
                       RandomPathLength(n, Frac(2 * m, n)))

\* MetricsCalculator._calculate_vulnerability
calculate_vulnerability(betweenness, incoming_load, outgoing_load) ==
    RAdd(RMul(Frac(6, 10), betweenness),
         RMul(Frac(4, 10), RMin(RDiv(RAdd(incoming_load, outgoing_load), R(10000)), R(1))))

\* nx.number_weakly_connected_components
number_weakly_connected_components(G) ==
    Cardinality({WeakFrom(G, {v}) : v \in NodeSet(G)})

\* one value per node, all of them x
ConstantOver(G, x) == Tabulate([v \in NodeSet(G) |-> x])

\* value > threshold, in the place of >=
Above(value, threshold) == RLt(threshold, value)

\* the test of _identify_hubs_and_bottlenecks: value >= threshold
AtOrAbove(value, threshold) == RLe(threshold, value)

\* _calculate_node_metrics and _identify_hubs_and_bottlenecks, given what
\* the four node algorithms (or their except branches) produced
FullNodeMetricsWith(G, deg, bc, cc, cl, pr, inc, out, hub_degree_threshold,
                    bottleneck_threshold) ==
    Tabulate([v \in NodeSet(G) |->
        [name |-> v,
         in_degree |-> in_degree(G, v),
         out_degree |-> out_degree(G, v),
         total_degree |-> deg[v],
         betweenness_centrality |-> bc[v],
         closeness_centrality |-> cc[v],
         clustering_coefficient |-> cl[v],
         pagerank |-> pr[v],
         incoming_load |-> inc[v],
         outgoing_load |-> out[v],
         is_hub |-> AtOrAbove(R(deg[v]), hub_degree_threshold),
         is_bottleneck |-> AtOrAbove(bc[v], bottleneck_threshold),
         vulnerability_score |-> calculate_vulnerability(bc[v], inc[v], out[v])]])

FullNodeMetricsFrom(G, deg, bc, cc, cl, pr) ==
    FullNodeMetricsWith(G, deg, bc, cc, cl, pr,
        calculate_incoming_load(G), calculate_outgoing_load(G),
        percentile([i \in 1..Len(G.nodes) |-> R(deg[G.nodes[i]])], HubPercentile),
        percentile([i \in 1..Len(G.nodes) |-> bc[G.nodes[i]]], BottleneckPercentile))

\* the node metrics of a call under `raises`: each try block gives the
\* library's value, or the value of its except branch
calculate_node_metrics_under(G, D, raises) ==
    FullNodeMetricsFrom(G, TotalDegrees(G),
        IF "betweenness" \in raises THEN ConstantOver(G, R(0))
        ELSE betweenness_centrality(G, D),
        IF "closeness" \in raises THEN ConstantOver(G, R(0))
        ELSE closeness_centrality(G, D),
        IF "clustering" \in raises THEN ConstantOver(G, R(0)) ELSE clustering(G),
        IF "pagerank" \in raises THEN PagerankFallback(G) ELSE pagerank(G))

\* _calculate_graph_metrics once the path length and the clustering are known
FullGraphMetricsWith(G, D, nm, raises, no_path, avg_path_length, avg_clustering) ==
    [node_count |-> number_of_nodes(G),
     edge_count |-> number_of_edges(G),
     density |-> IF number_of_nodes(G) * (number_of_nodes(G) - 1) > 0
                 THEN Frac(number_of_edges(G),
                           number_of_nodes(G) * (number_of_nodes(G) - 1))
                 ELSE R(0),
     average_path_length |-> avg_path_length,
     weighted_average_path_length |->
         IF "weighted_average_path_length" \in raises THEN R(0)
         ELSE calculate_weighted_average_path_length(G, no_path),
     diameter |-> IF "diameter" \in raises THEN 0 ELSE calculate_diameter(G, D),
     average_clustering |-> avg_clustering,
     is_connected |-> number_weakly_connected_components(G) = 1,
     strongly_connected_components |-> Cardinality(strongly_connected_components(G, D)),
     weakly_connected_components |-> number_weakly_connected_components(G),
     max_betweenness |->
         RMaxOf([v \in NodeSet(G) |-> nm[v].betweenness_centrality], NodeSet(G)),
     total_load |-> RSum([v \in NodeSet(G) |-> nm[v].incoming_load], NodeSet(G)),
     hub_count |-> Cardinality({v \in NodeSet(G) : nm[v].is_hub}),
     bottleneck_count |-> Cardinality({v \in NodeSet(G) : nm[v].is_bottleneck}),
     small_world_coefficient |->
         calculate_small_world_coefficient(avg_clustering, avg_path_length,
                                           number_of_nodes(G), number_of_edges(G))]

\* the graph metrics of a call under `raises`
calculate_graph_metrics_under(G, D, nm, raises, no_path) ==
    FullGraphMetricsWith(G, D, nm, raises, no_path,
        IF "average_path_length" \in raises THEN R(0)
        ELSE calculate_average_path_length(G, D),
        IF "average_clustering" \in raises THEN R(0) ELSE average_clustering(G))

\* a GraphMetrics that calls the graph of no node connected
ConnectedGraphMetrics ==
    [node_count |-> 0, edge_count |-> 0, density |-> R(0),
     average_path_length |-> R(0), weighted_average_path_length |-> R(0),
     diameter |-> 0, average_clustering |-> R(0), is_connected |-> TRUE,
     strongly_connected_components |-> 0, weakly_connected_components |-> 1,
     max_betweenness |-> R(0), total_load |-> R(0), hub_count |-> 0,
     bottleneck_count |-> 0, small_world_coefficient |-> ZeroCoefficient]

\* GraphMetrics() with every field at its default
DefaultGraphMetrics ==
    [node_count |-> 0, edge_count |-> 0, density |-> R(0),
     average_path_length |-> R(0), weighted_average_path_length |-> R(0),
     diameter |-> 0, average_clustering |-> R(0), is_connected |-> FALSE,
     strongly_connected_components |-> 0, weakly_connected_components |-> 0,
     max_betweenness |-> R(0), total_load |-> R(0), hub_count |-> 0,
     bottleneck_count |-> 0, small_world_coefficient |-> ZeroCoefficient]

CalculateAllUnderWith(G, D, nm, raises, no_path) ==
    <<calculate_graph_metrics_under(G, D, nm, raises, no_path), nm>>

CalculateAllUnderFrom(G, D, raises, no_path) ==
    CalculateAllUnderWith(G, D, calculate_node_metrics_under(G, D, raises),
                          raises, no_path)

\* MetricsCalculator.calculate_all with every field, for a call during
\* which the computations in `raises` raise: <<graph_metrics, node_metrics>>
calculate_all_under(G, raises, no_path) ==
    IF number_of_nodes(G) = 0 THEN <<DefaultGraphMetrics, <<>>>>
    ELSE CalculateAllUnderFrom(G, AllDist(G), raises, no_path)

(***************************************************************************)
(* calculate_all is a pure function of the graph.  A table of its values   *)
(* for graphs met before stands for computing them again; a graph that is  *)
(* not in the table is computed afresh.                                    *)
(***************************************************************************)
TableEntry(G) == [graph |-> G, value |-> calculate_all(G)]

calculate_all_of(table, key, G) ==
    IF key \in DOMAIN table /\ table[key].graph = G
    THEN table[key].value
    ELSE calculate_all(G)

(***************************************************************************)
(* ShortcutOptimizer.                                                       *)
(***************************************************************************)
\* epsilon = 0.01, the small value added to the risk in the score
Epsilon == Frac(1, 100)

\* OptimizationGoal and the weights set_goal installs for each
Goals == {"latency", "paths", "load", "balanced"}
GoalWeights(goal) ==
    IF goal = "latency" THEN [alpha |-> R(2), beta |-> Frac(1, 2), gamma |-> Frac(1, 10)]
    ELSE IF goal = "paths" THEN [alpha |-> R(2), beta |-> Frac(3, 10), gamma |-> R(0)]
    ELSE IF goal = "load" THEN [alpha |-> Frac(1, 2), beta |-> R(2), gamma |-> Frac(1, 10)]
    ELSE [alpha |-> R(1), beta |-> R(1), gamma |-> Frac(1, 10)]

\* the field defaults of the ShortcutOptimizer dataclass
DefaultWeights == [alpha |-> R(1), beta |-> R(1), gamma |-> Frac(1, 10)]

\* PolicyConstraints(): the field defaults
DefaultPolicy ==
    [forbidden_pairs |-> {}, allowed_zones |-> <<>>, max_new_edges_per_service |-> 3,
     require_same_zone |-> FALSE, min_path_length_to_shortcut |-> 2]

\* node attribute lookup: graph.nodes[n].get("zone", "")
ZoneOf(G, n) == G.zone[n]

\* a zone rule that rejects nothing, to compare with SameZoneRejects
SameZoneIgnored(G, policy, source, target) == FALSE

\* the require_same_zone rule: TRUE when it rejects the pair
SameZoneRejects(G, policy, source, target) ==
    /\ policy.require_same_zone
    /\ Truthy(ZoneOf(G, source))
    /\ Truthy(ZoneOf(G, target))
    /\ ZoneOf(G, source) # ZoneOf(G, target)

\* the allowed_zones rule: TRUE when it rejects the pair
AllowedZonesRejects(G, policy, source, target) ==
    /\ DOMAIN policy.allowed_zones # {}
    /\ ZoneOf(G, source) \in DOMAIN policy.allowed_zones
    /\ ZoneOf(G, target) \notin policy.allowed_zones[ZoneOf(G, source)]

\* a path rule that rejects nothing, to compare with MinPathRejects
MinPathIgnored(D, policy, source, target) == FALSE

\* the minimum path length rule: TRUE when it rejects the pair
MinPathRejects(D, policy, source, target) ==
    /\ HasPath(D, source, target)
    /\ D[source][target] < policy.min_path_length_to_shortcut

\* the inner loop without its has_edge test, to compare with Retained
RetainedOverEdges(G, D, policy, source, target) ==
    /\ source # target
    /\ <<source, target>> \notin policy.forbidden_pairs
    /\ <<target, source>> \notin policy.forbidden_pairs
    /\ ~SameZoneRejects(G, policy, source, target)
    /\ ~AllowedZonesRejects(G, policy, source, target)
    /\ ~MinPathRejects(D, policy, source, target)

\* the inner loop looking up only (source, target) in forbidden_pairs, to
\* compare with Retained
RetainedOneWay(G, D, policy, source, target) ==
    /\ source # target
    /\ ~has_edge(G, source, target)
    /\ <<source, target>> \notin policy.forbidden_pairs
    /\ ~SameZoneRejects(G, policy, source, target)
    /\ ~AllowedZonesRejects(G, policy, source, target)
    /\ ~MinPathRejects(D, policy, source, target)

\* the body of the inner loop of _generate_candidates: TRUE when the pair
\* reaches candidates.append
Retained(G, D, policy, source, target) ==
    /\ source # target
    /\ ~has_edge(G, source, target)
    /\ <<source, target>> \notin policy.forbidden_pairs
    /\ <<target, source>> \notin policy.forbidden_pairs
    /\ ~SameZoneRejects(G, policy, source, target)
    /\ ~AllowedZonesRejects(G, policy, source, target)
    /\ ~MinPathRejects(D, policy, source, target)

\* what the inner loop does to edge_counts when it accepts a pair: nothing,
\* the dictionary is filled with zeros and only ever read
CountAccepted(edge_counts, source) == edge_counts

RECURSIVE GenerateLoopStrict(_, _, _, _, _, _, _)
\* the two loops with a source skipped only once its count is above the limit
GenerateLoopStrict(G, D, policy, i, j, edge_counts, candidates) ==
    IF i > Len(G.nodes) THEN candidates
    ELSE IF j = 1 /\ edge_counts[G.nodes[i]] > policy.max_new_edges_per_service
    THEN GenerateLoopStrict(G, D, policy, i + 1, 1, edge_counts, candidates)
    ELSE IF j > Len(G.nodes)
    THEN GenerateLoopStrict(G, D, policy, i + 1, 1, edge_counts, candidates)
    ELSE IF Retained(G, D, policy, G.nodes[i], G.nodes[j])
    THEN GenerateLoopStrict(G, D, policy, i, j + 1,
                            CountAccepted(edge_counts, G.nodes[i]),
                            Append(candidates, <<G.nodes[i], G.nodes[j]>>))
    ELSE GenerateLoopStrict(G, D, policy, i, j + 1, edge_counts, candidates)

RECURSIVE GenerateLoop(_, _, _, _, _, _, _)
\* the two nested loops of _generate_candidates, at source index i and
\* target index j
GenerateLoop(G, D, policy, i, j, edge_counts, candidates) ==
    IF i > Len(G.nodes) THEN candidates
    ELSE IF j = 1 /\ edge_counts[G.nodes[i]] >= policy.max_new_edges_per_service
    THEN GenerateLoop(G, D, policy, i + 1, 1, edge_counts, candidates)
    ELSE IF j > Len(G.nodes)
    THEN GenerateLoop(G, D, policy, i + 1, 1, edge_counts, candidates)
    ELSE IF Retained(G, D, policy, G.nodes[i], G.nodes[j])
    THEN GenerateLoop(G, D, policy, i, j + 1,
                      CountAccepted(edge_counts, G.nodes[i]),
                      Append(candidates, <<G.nodes[i], G.nodes[j]>>))
    ELSE GenerateLoop(G, D, policy, i, j + 1, edge_counts, candidates)

\* ShortcutOptimizer._generate_candidates
generate_candidates(G, policy) ==
    GenerateLoop(G, AllDist(G), policy, 1, 1, Tabulate([n \in NodeSet(G) |-> 0]), <<>>)

\* ShortcutOptimizer._calculate_objective: the cost term is gamma * 0
calculate_objective(w, metrics) ==
    RAdd(RAdd(RMul(w.alpha, metrics.average_path_length),
              RMul(w.beta, metrics.max_betweenness)),
         RMul(w.gamma, R(0)))

\* ShortcutOptimizer._estimate_shortcut_latency
estimate_shortcut_latency(G) ==
    LET pos == {e \in G.edges : RLt(R(0), G.attr[e].p50_latency)}
    IN  IF pos = {} THEN R(1)
        ELSE RMul(RDiv(RSum([e \in pos |-> G.attr[e].p50_latency], pos),
                       R(Cardinality(pos))),
                  Frac(8, 10))

\* the attributes _evaluate_candidate and simulate_shortcuts give a trial edge
TrialAttr(latency, call_rate) ==
    [weight |-> latency, call_rate |-> call_rate, p50_latency |-> latency,
     p95_latency |-> RMul(latency, R(2)), error_rate |-> R(0), cost |-> R(0),
     is_shortcut |-> TRUE]

\* modified_graph = self.graph (no copy); modified_graph.add_edge(...), to
\* compare with TrialWithEdge
TrialOnSelf(G, source, target, a) ==
    [self |-> add_edge(G, source, target, a), trial |-> add_edge(G, source, target, a)]

\* modified_graph = self.graph.copy(); modified_graph.add_edge(...): the
\* optimizer's own graph and the trial graph after the two statements
TrialWithEdge(G, source, target, a) ==
    [self |-> G, trial |-> add_edge(G, source, target, a)]

\* test_graph = self.graph.copy(); test_graph.remove_edge(...)
TrialWithoutEdge(G, source, target) ==
    [self |-> G, trial |-> nx_remove_edge(G, source, target)]

\* ShortcutOptimizer._calculate_risk_score
calculate_risk_score(source, target, node_metrics) ==
    LET tm == node_metrics[target]
        r1 == RMul(tm.betweenness_centrality, Frac(1, 2))
        r2 == IF tm.is_bottleneck THEN RAdd(r1, Frac(3, 10)) ELSE r1
        r3 == IF node_metrics[source].is_hub THEN RAdd(r2, Frac(2, 10)) ELSE r2
    IN  RMin(RAdd(r3, Frac(1, 10)), R(1))

\* ShortcutOptimizer._calculate_confidence
calculate_confidence(delta_obj, baseline, modified) ==
    IF RLe(R(0), delta_obj) THEN R(0)
    ELSE LET improvement == RSub(R(0), delta_obj)
             c1 == RMin(RMul(improvement, R(2)), Frac(1, 2))
             c2 == IF baseline.is_connected THEN RAdd(c1, Frac(2, 10)) ELSE c1
             path_reduction ==
                 RSub(baseline.average_path_length, modified.average_path_length)
             c3 == IF RLt(Frac(1, 10), path_reduction) THEN RAdd(c2, Frac(2, 10)) ELSE c2
             betweenness_increase ==
                 RSub(modified.max_betweenness, baseline.max_betweenness)
             c4 == IF RLt(Frac(1, 10), betweenness_increase)
                   THEN RSub(c3, Frac(1, 10)) ELSE c3
         IN  RMax(R(0), RMin(R(1), c4))

\* the value _evaluate_candidate returns for a pair that does not improve
None == [none |-> TRUE]

\* the last part of _evaluate_candidate: None for a pair that does not
\* lower the objective, else the candidate with its score
CandidateFrom(source, target, bm, mm, delta_obj, risk_score, estimated_latency) ==
    IF RLe(R(0), delta_obj) THEN None
    ELSE [source |-> source,
          target |-> target,
          delta_objective |-> delta_obj,
          delta_path_length |-> RSub(mm.average_path_length, bm.average_path_length),
          delta_max_betweenness |-> RSub(mm.max_betweenness, bm.max_betweenness),
          risk_score |-> risk_score,
          confidence |-> calculate_confidence(delta_obj, bm, mm),
          score |-> RDiv(RSub(R(0), delta_obj), RAdd(risk_score, Epsilon)),
          estimated_latency |-> estimated_latency,
          estimated_call_rate |-> R(0)]

\* _evaluate_candidate with delta_obj taken as baseline minus modified, to
\* compare with EvaluateMetrics
EvaluateMetricsReversed(w, source, target, baseline, modified, estimated_latency) ==
    CandidateFrom(source, target, baseline[1], modified[1],
                  RSub(calculate_objective(w, baseline[1]),
                       calculate_objective(w, modified[1])),
                  calculate_risk_score(source, target, modified[2]),
                  estimated_latency)

\* _evaluate_candidate once both metric sets are computed
EvaluateMetrics(w, source, target, baseline, modified, estimated_latency) ==
    CandidateFrom(source, target, baseline[1], modified[1],
                  RSub(calculate_objective(w, modified[1]),
                       calculate_objective(w, baseline[1])),
                  calculate_risk_score(source, target, modified[2]),
                  estimated_latency)

\* _evaluate_candidate once the trial graph is made
EvaluateTrial(table, w, source, target, baseline, graphs, estimated_latency) ==
    [graph |-> graphs.self,
     candidate |-> EvaluateMetrics(w, source, target, baseline,
                                   calculate_all_of(table, <<source, target>>, graphs.trial),
                                   estimated_latency)]

EvaluateWith(table, G, w, source, target, baseline, estimated_latency) ==
    EvaluateTrial(table, w, source, target, baseline,
                  TrialWithEdge(G, source, target, TrialAttr(estimated_latency, R(0))),
                  estimated_latency)

\* ShortcutOptimizer._evaluate_candidate: the candidate (or None) and the
\* optimizer's graph after the call
evaluate_candidate(table, G, w, source, target) ==
    EvaluateWith(table, G, w, source, target, calculate_all_of(table, <<>>, G),
                 estimate_shortcut_latency(G))

\* the pairs that _evaluate_candidate can be asked about: every ordered
\* pair of distinct nodes that is not an edge
OpenPairs(G) ==
    {p \in NodeSet(G) \X NodeSet(G) : p[1] # p[2] /\ ~has_edge(G, p[1], p[2])}

\* _evaluate_candidate is a function of the graph, the weights and the
\* pair: what it returns on the graph G for the weights of each goal and
\* each open pair, kept for the calls that meet the same graph again
EvaluationTable(table, G) ==
    [graph |-> G,
     value |-> Tabulate([w \in {GoalWeights(goal) : goal \in Goals} |->
                  Tabulate([p \in OpenPairs(G) |->
                      evaluate_candidate(table, G, w, p[1], p[2])])])]

\* _evaluate_candidate, looked up when the graph is the one of the table
evaluate_candidate_of(table, G, w, source, target) ==
    IF /\ table.evaluations.graph = G
       /\ w \in DOMAIN table.evaluations.value
       /\ <<source, target>> \in DOMAIN table.evaluations.value[w]
    THEN table.evaluations.value[w][<<source, target>>]
    ELSE evaluate_candidate(table.metrics, G, w, source, target)

RECURSIVE EvaluateLoop(_, _, _, _, _, _)
RECURSIVE EvaluateStep(_, _, _, _, _, _)
\* the evaluation loop of find_shortcuts over candidates[i..]: the accepted
\* candidates in order, and the optimizer's graph at the end
EvaluateLoop(table, G, w, candidates, i, evaluated) ==
    IF i > Len(candidates) THEN [graph |-> G, evaluated |-> evaluated]
    ELSE EvaluateStep(table,
                      evaluate_candidate_of(table, G, w, candidates[i][1], candidates[i][2]),
                      w, candidates, i, evaluated)

\* one round of the loop, given what _evaluate_candidate returned
EvaluateStep(table, r, w, candidates, i, evaluated) ==
    EvaluateLoop(table, r.graph, w, candidates, i + 1,
                 IF r.candidate # None /\ RLt(R(0), r.candidate.score)
                 THEN Append(evaluated, r.candidate) ELSE evaluated)

RECURSIVE InsertByScoreAscending(_, _)
\* the insertion of an ascending sort, to compare with InsertByScore
InsertByScoreAscending(sorted, x) ==
    IF sorted = <<>> THEN <<x>>
    ELSE IF RLt(x.score, Head(sorted).score) THEN <<x>> \o sorted
    ELSE <<Head(sorted)>> \o InsertByScoreAscending(Tail(sorted), x)

RECURSIVE InsertByScoreBeforeEqual(_, _)
\* the insertion of a descending sort that puts x in front of the entries
\* of its own score, to compare with InsertByScore
InsertByScoreBeforeEqual(sorted, x) ==
    IF sorted = <<>> THEN <<x>>
    ELSE IF RLe(Head(sorted).score, x.score) THEN <<x>> \o sorted
    ELSE <<Head(sorted)>> \o InsertByScoreBeforeEqual(Tail(sorted), x)

RECURSIVE InsertByScore(_, _)
\* x goes behind every entry whose score is at least its own
InsertByScore(sorted, x) ==
    IF sorted = <<>> THEN <<x>>
    ELSE IF RLt(Head(sorted).score, x.score) THEN <<x>> \o sorted
    ELSE <<Head(sorted)>> \o InsertByScore(Tail(sorted), x)

RECURSIVE SortLoop(_, _, _)
SortLoop(evaluated, i, sorted) ==
    IF i > Len(evaluated) THEN sorted
    ELSE SortLoop(evaluated, i + 1, InsertByScore(sorted, evaluated[i]))

\* evaluated.sort(key=lambda c: c.score, reverse=True): stable, descending
SortByScore(evaluated) == SortLoop(evaluated, 1, <<>>)

\* evaluated[:k] for k >= 0
Take(s, k) == SubSeq(s, 1, IF k < Len(s) THEN k ELSE Len(s))

\* the metrics for one find_shortcuts call: the graph itself under <<>>
\* and, under <<s, t>>, the trial graph with the edge s -> t
MetricsTable(G) ==
    Tabulate([key \in {<<>>} \cup OpenPairs(G) |->
        IF key = <<>> THEN TableEntry(G)
        ELSE TableEntry(TrialWithEdge(G, key[1], key[2],
                            TrialAttr(estimate_shortcut_latency(G), R(0))).trial)])

SearchTableFrom(metrics, G) ==
    [metrics |-> metrics, evaluations |-> EvaluationTable(metrics, G)]

\* what one find_shortcuts call on G looks up instead of computing again
SearchTable(G) == SearchTableFrom(MetricsTable(G), G)

\* find_shortcuts up to the sort: the generated pairs, the accepted
\* candidates, the sorted list and the optimizer's graph at that point
SearchFrom(candidates, r) ==
    [graph |-> r.graph, candidates |-> candidates, evaluated |-> r.evaluated,
     sorted |-> SortByScore(r.evaluated)]

SearchWith(table, G, w, candidates) ==
    SearchFrom(candidates, EvaluateLoop(table, G, w, candidates, 1, <<>>))

Search(table, G, w, policy) ==
    IF number_of_nodes(G) < 2
    THEN [graph |-> G, candidates |-> <<>>, evaluated |-> <<>>, sorted |-> <<>>]
    ELSE SearchWith(table, G, w, generate_candidates(G, policy))

\* ShortcutOptimizer.find_shortcuts(k, policy): the list returned
find_shortcuts(G, w, k, policy) ==
    Take(Search(SearchTable(G), G, w, policy).sorted, k)

(***************************************************************************)
(* simulate_shortcuts and get_removal_candidates.                           *)
(***************************************************************************)
RECURSIVE ApplyShortcuts(_, _, _)
\* the loop of simulate_shortcuts over shortcuts[i..], on the graph sim
ApplyShortcuts(sim, shortcuts, i) ==
    IF i > Len(shortcuts) THEN sim
    ELSE ApplyShortcuts(
            add_edge(sim, shortcuts[i].source, shortcuts[i].target,
                     TrialAttr(shortcuts[i].estimated_latency,
                               shortcuts[i].estimated_call_rate)),
            shortcuts, i + 1)

\* simulated = nx.DiGraph() (no copy of the graph) and the loop over it, to
\* compare with SimulatedGraphs
SimulatedFromScratch(G, shortcuts) ==
    [self |-> G, trial |-> ApplyShortcuts(EmptyGraph, shortcuts, 1)]

\* simulated = self.graph.copy() and the loop over it: the optimizer's own
\* graph and the simulated graph afterwards
SimulatedGraphs(G, shortcuts) ==
    [self |-> G, trial |-> ApplyShortcuts(G, shortcuts, 1)]

SimulateWith(graphs) == [graph |-> graphs.self, value |-> calculate_all(graphs.trial)]

\* ShortcutOptimizer.simulate_shortcuts: the metrics returned and the
\* optimizer's graph after the call
simulate_shortcuts(G, shortcuts) == SimulateWith(SimulatedGraphs(G, shortcuts))

\* graph.edges(data=True) as a list: by source in node order, and for one
\* source by target in node order
EdgeOrder(G) ==
    LET idx(n) == CHOOSE i \in 1..Len(G.nodes) : G.nodes[i] = n
        key(e) == idx(e[1]) * (Len(G.nodes) + 1) + idx(e[2])
        rank(e) == Cardinality({f \in G.edges : key(f) < key(e)}) + 1
    IN  [i \in 1..Cardinality(G.edges) |-> CHOOSE e \in G.edges : rank(e) = i]

\* the impact limit of get_removal_candidates: delta < 0.1
RemovalLimit == Frac(1, 10)

RECURSIVE InsertByImpact(_, _)
\* x goes behind every entry whose impact is at most its own
InsertByImpact(sorted, x) ==
    IF sorted = <<>> THEN <<x>>
    ELSE IF RLt(x.impact, Head(sorted).impact) THEN <<x>> \o sorted
    ELSE <<Head(sorted)>> \o InsertByImpact(Tail(sorted), x)

RECURSIVE SortByImpactLoop(_, _, _)
SortByImpactLoop(found, i, sorted) ==
    IF i > Len(found) THEN sorted
    ELSE SortByImpactLoop(found, i + 1, InsertByImpact(sorted, found[i]))

\* removal_candidates.sort(key=lambda x: x["impact"]): stable, ascending
SortByImpact(found) == SortByImpactLoop(found, 1, <<>>)

\* the round without its is_weakly_connected test, to compare with
\* RemovalEntry
RemovalEntryAnyEdge(w, baseline_obj, graphs, source, target) ==
    LET delta == RSub(calculate_objective(w, calculate_all(graphs.trial)[1]),
                      baseline_obj)
    IN  IF RLt(delta, RemovalLimit)
        THEN [source |-> source, target |-> target, impact |-> delta]
        ELSE None

\* one round of the loop of get_removal_candidates, once the test graph is
\* made: the entry to append, or None
RemovalEntry(w, baseline_obj, graphs, source, target) ==
    IF ~is_weakly_connected(graphs.trial) THEN None
    ELSE LET delta == RSub(calculate_objective(w, calculate_all(graphs.trial)[1]),
                           baseline_obj)
         IN  IF RLt(delta, RemovalLimit)
             THEN [source |-> source, target |-> target, impact |-> delta]
             ELSE None

RECURSIVE RemovalLoop(_, _, _, _, _, _)
RECURSIVE RemovalStep(_, _, _, _, _, _)
\* the loop of get_removal_candidates over edges[i..], the edge list taken
\* when the loop starts
RemovalLoop(G, w, baseline_obj, edges, i, found) ==
    IF i > Len(edges) THEN [graph |-> G, found |-> found]
    ELSE RemovalStep(TrialWithoutEdge(G, edges[i][1], edges[i][2]),
                     w, baseline_obj, edges, i, found)

RemovalStep(graphs, w, baseline_obj, edges, i, found) ==
    RemovalLoop(graphs.self, w, baseline_obj, edges, i + 1,
                IF RemovalEntry(w, baseline_obj, graphs, edges[i][1], edges[i][2]) # None
                THEN Append(found,
                            RemovalEntry(w, baseline_obj, graphs, edges[i][1], edges[i][2]))
                ELSE found)

RemovalFrom(r) == [graph |-> r.graph, sorted |-> SortByImpact(r.found)]

\* get_removal_candidates up to the sort: the sorted list and the
\* optimizer's graph at that point
RemovalSearch(G, w) ==
    IF number_of_edges(G) < 2 THEN [graph |-> G, sorted |-> <<>>]
    ELSE RemovalFrom(RemovalLoop(G, w, calculate_objective(w, calculate_all(G)[1]),
                                 EdgeOrder(G), 1, <<>>))

\* ShortcutOptimizer.get_removal_candidates(k): the list returned
get_removal_candidates(G, w, k) == Take(RemovalSearch(G, w).sorted, k)

(***************************************************************************)
(* GraphBuilder.                                                            *)
(***************************************************************************)
\* the attributes _add_dependency_edge gives the edge of an EdgeData
DependencyAttr(edge) ==
    [weight |-> IF RLt(R(0), edge.p50_latency) THEN edge.p50_latency ELSE R(1),
     call_rate |-> edge.call_rate, p50_latency |-> edge.p50_latency,
     p95_latency |-> edge.p95_latency, error_rate |-> edge.error_rate,
     cost |-> edge.cost, is_shortcut |-> FALSE]

\* GraphBuilder._add_dependency_edge
add_dependency_edge(G, edge) == add_edge(G, edge.source, edge.target, DependencyAttr(edge))

RECURSIVE AddServices(_, _, _)
AddServices(G, services, i) ==
    IF i > Len(services) THEN G
    ELSE AddServices(add_node(G, services[i].name, services[i].zone), services, i + 1)

RECURSIVE AddEdges(_, _, _)
AddEdges(G, edges, i) ==
    IF i > Len(edges) THEN G
    ELSE AddEdges(add_dependency_edge(G, edges[i]), edges, i + 1)

\* GraphBuilder.build_from_topology: a fresh graph, the services, the edges
build_from_topology(topology) ==
    AddEdges(AddServices(EmptyGraph, topology.services, 1), topology.edges, 1)

\* the attributes add_shortcut_edge gives a new edge
ShortcutAttr(call_rate, p50_latency, p95_latency, error_rate, cost) ==
    [weight |-> IF RLt(R(0), p50_latency) THEN p50_latency ELSE R(1),
     call_rate |-> call_rate, p50_latency |-> p50_latency,
     p95_latency |-> p95_latency, error_rate |-> error_rate,
     cost |-> cost, is_shortcut |-> TRUE]

\* GraphBuilder.add_shortcut_edge with its default arguments: the graph
\* afterwards and the value returned
add_shortcut_edge(G, source, target) ==
    IF has_edge(G, source, target) THEN [graph |-> G, value |-> FALSE]
    ELSE [graph |-> add_edge(G, source, target,
                             ShortcutAttr(R(0), R(1), R(5), R(0), R(0))),
          value |-> TRUE]

\* GraphBuilder.remove_edge: the graph afterwards and the value returned
remove_edge(G, source, target) ==
    IF ~has_edge(G, source, target) THEN [graph |-> G, value |-> FALSE]
    ELSE [graph |-> nx_remove_edge(G, source, target), value |-> TRUE]

(***************************************************************************)
(* The inputs.                                                              *)
(***************************************************************************)
\* the services of the topologies: two zones, and one service with no zone
Services ==
    <<[name |-> "a", zone |-> "east"], [name |-> "b", zone |-> "east"],
      [name |-> "c", zone |-> "west"], [name |-> "d", zone |-> NoneZone]>>

\* EdgeData between two of the services, with a latency and a cost
EdgeDataSet ==
    {[source |-> s, target |-> t, call_rate |-> R(10), p50_latency |-> R(10),
      p95_latency |-> R(50), error_rate |-> R(0), cost |-> R(1)] :
        <<s, t>> \in {p \in Names \X Names : p[1] # p[2]}}

RECURSIVE SeqsUpTo(_, _)
\* the sequences over S of length at most n
SeqsUpTo(S, n) ==
    IF n = 0 THEN {<<>>}
    ELSE SeqsUpTo(S, n - 1) \cup
         {Append(q, x) : q \in {r \in SeqsUpTo(S, n - 1) : Len(r) = n - 1}, x \in S}

\* the service lists of the topologies: all four services, or the first
\* two or three
ServiceLists == {Services, SubSeq(Services, 1, 2), SubSeq(Services, 1, 3)}

\* the names of a service list
ServiceNames(services) == {services[i].name : i \in 1..Len(services)}

\* ServiceTopology: a service list, and no edge or one between its services
Topologies ==
    {[services |-> sv, edges |-> el] :
        <<sv, el>> \in {p \in ServiceLists \X SeqsUpTo(EdgeDataSet, 1) :
            \A i \in 1..Len(p[2]) :
                {p[2][i].source, p[2][i].target} \subseteq ServiceNames(p[1])}}

Policies ==
    {DefaultPolicy,
     [DefaultPolicy EXCEPT !.max_new_edges_per_service = 1],
     [DefaultPolicy EXCEPT !.max_new_edges_per_service = 0],
     [DefaultPolicy EXCEPT !.require_same_zone = TRUE],
     [DefaultPolicy EXCEPT !.allowed_zones = [z \in {"east"} |-> {"east"}]],
     [DefaultPolicy EXCEPT !.forbidden_pairs = {<<"a", "c">>, <<"d", "b">>},
                           !.min_path_length_to_shortcut = 1],
     [DefaultPolicy EXCEPT !.min_path_length_to_shortcut = 3]}

\* a ShortcutCandidate built by hand, every other field at its default
CandidateOf(source, target) ==
    [source |-> source, target |-> target, estimated_latency |-> R(1),
     estimated_call_rate |-> R(0)]

\* two candidates with the default estimated_latency, and one built with
\* estimated_latency=0.0
ShortcutLists ==
    SeqsUpTo({CandidateOf("a", "c"), CandidateOf("d", "a"),
              [CandidateOf("b", "a") EXCEPT !.estimated_latency = R(0)]}, 2)

\* ShortcutOptimizer(graph) followed by set_goal(goal): the weights the
\* optimizer then holds
set_goal(goal) == GoalWeights(goal)

\* what is asked of find_shortcuts: every policy under the default goal,
\* and every goal under the default policy
Requests ==
    {[goal |-> "balanced", policy |-> p] : p \in Policies}
    \cup {[goal |-> g, policy |-> DefaultPolicy] : g \in Goals}

(***************************************************************************)
(* The state: the one graph that the builder, the calculator and the       *)
(* optimizer hold a reference to, and the value the last query returned,   *)
(* until the caller lets go of it.  A calculator or an optimizer is made   *)
(* for each query (ShortcutOptimizer(graph), then set_goal), as the        *)
(* command line and the HTTP handler do, so its weights are part of the    *)
(* query and not of the state.                                             *)
(***************************************************************************)
VARIABLES graph, ret

\* The state of the HTTP application: the WebSocket objects and the
\* manager's list of them, the broadcast under way, and the in-memory
\* stores with the record_simulation calls that are suspended.  received
\* keeps, for each user, what the calls made so far have handed in.
VARIABLES websockets, active_connections, broadcast,
          user_scores, simulation_history, calls, received

api == <<websockets, active_connections, broadcast,
         user_scores, simulation_history, calls, received>>

vars == <<graph, ret, api>>

Idle == [op |-> "idle"]

\* the WebSocket objects that clients open, and the users of the API
Connections == {"ws1", "ws2"}
Users == {"u1", "u2"}

\* no broadcast is under way
NoBroadcast == [pc |-> "none"]

\* ConnectionManager.__init__, and the two stores as the module makes them
Init ==
    /\ graph = EmptyGraph
    /\ ret = Idle
    /\ websockets = [ws \in Connections |-> "new"]
    /\ active_connections = <<>>
    /\ broadcast = NoBroadcast
    /\ user_scores = <<>>
    /\ simulation_history = <<>>
    /\ calls = <<>>
    /\ received = [u \in Users |-> [points |-> 0, completed |-> 0]]

\* builder.build_from_topology(topology)
BuildFromTopology ==
    /\ ret = Idle
    /\ \E topology \in Topologies :
        graph' = build_from_topology(topology)
    /\ UNCHANGED ret
    /\ UNCHANGED api

\* builder.add_shortcut_edge(source, target), between two nodes of the graph
AddShortcutEdge ==
    /\ ret = Idle
    /\ \/ number_of_edges(graph) < MaxEdges
       \/ number_of_nodes(graph) <= 3 /\ number_of_edges(graph) < MaxDenseEdges
    /\ \E source \in NodeSet(graph) : \E target \in NodeSet(graph) \ {source} :
        graph' = add_shortcut_edge(graph, source, target).graph
    /\ UNCHANGED ret
    /\ UNCHANGED api

\* builder.remove_edge(source, target)
RemoveEdge ==
    /\ ret = Idle
    /\ \E source \in Names, target \in Names :
        graph' = remove_edge(graph, source, target).graph
    /\ UNCHANGED ret
    /\ UNCHANGED api

\* what find_shortcuts leaves behind, for each k, once the search r is done
FindShortcutsReturn(request, r) ==
    \E k \in 0..MaxK :
        /\ graph' = r.graph
        /\ ret' = [op |-> "find_shortcuts", k |-> k, goal |-> request.goal,
                   policy |-> request.policy, before |-> graph,
                   candidates |-> r.candidates, evaluated |-> r.evaluated,
                   value |-> Take(r.sorted, k)]

FindShortcutsCall(table) ==
    \E request \in Requests :
        FindShortcutsReturn(request,
            Search(table, graph, set_goal(request.goal), request.policy))

\* optimizer.set_goal(goal); optimizer.find_shortcuts(k, policy)
FindShortcuts ==
    /\ ret = Idle
    /\ FindShortcutsCall(SearchTable(graph))
    /\ UNCHANGED api

SimulateReturn(shortcuts, r) ==
    /\ graph' = r.graph
    /\ ret' = [op |-> "simulate_shortcuts", shortcuts |-> shortcuts, before |-> graph,
               value |-> r.value]

\* optimizer.simulate_shortcuts(shortcuts)
SimulateShortcuts ==
    /\ ret = Idle
    /\ \E shortcuts \in ShortcutLists :
        SimulateReturn(shortcuts, simulate_shortcuts(graph, shortcuts))
    /\ UNCHANGED api

RemovalReturn(goal, r) ==
    \E k \in 0..MaxK :
        /\ graph' = r.graph
        /\ ret' = [op |-> "get_removal_candidates", k |-> k, goal |-> goal,
                   before |-> graph, value |-> Take(r.sorted, k)]

\* optimizer.set_goal(goal); optimizer.get_removal_candidates(k)
GetRemovalCandidates ==
    /\ ret = Idle
    /\ \E goal \in Goals : RemovalReturn(goal, RemovalSearch(graph, set_goal(goal)))
    /\ UNCHANGED api

\* MetricsCalculator(graph).calculate_all()
CalculateAll ==
    /\ ret = Idle
    /\ ret' = [op |-> "calculate_all", before |-> graph, value |-> calculate_all(graph)]
    /\ UNCHANGED graph
    /\ UNCHANGED api

\* MetricsCalculator(graph).get_objective_value(alpha, beta, gamma), with
\* the weights of a goal
GetObjectiveValue ==
    /\ ret = Idle
    /\ \E goal \in Goals :
        ret' = [op |-> "get_objective_value", goal |-> goal, before |-> graph,
                value |-> get_objective_value(graph, set_goal(goal).alpha,
                                              set_goal(goal).beta, set_goal(goal).gamma)]
    /\ UNCHANGED graph
    /\ UNCHANGED api

\* the caller is done with the returned value
Discard ==
    /\ ret # Idle
    /\ ret' = Idle
    /\ UNCHANGED graph
    /\ UNCHANGED api

Next ==
    \/ BuildFromTopology
    \/ AddShortcutEdge
    \/ RemoveEdge
    \/ FindShortcuts
    \/ SimulateShortcuts
    \/ GetRemovalCandidates
    \/ CalculateAll
    \/ GetObjectiveValue
    \/ Discard

Spec == Init /\ [][Next]_vars

(***************************************************************************)
(* The builder on its own: build_from_dict on dictionaries that pass or    *)
(* fail validation, and add_shortcut_edge, remove_edge and copy with any    *)
(* names.  In a dictionary a name is the sequence of its characters.        *)
(***************************************************************************)
\* the characters validate_name allows, among those of the inputs
AllowedChars == {"a", "b", "c", "d", "-", "_", "."}

RECURSIVE StripLeft(_)
StripLeft(v) == IF v # <<>> /\ Head(v) = " " THEN StripLeft(Tail(v)) ELSE v

RECURSIVE StripRight(_)
StripRight(v) ==
    IF v # <<>> /\ v[Len(v)] = " " THEN StripRight(SubSeq(v, 1, Len(v) - 1)) ELSE v

\* str.strip()
strip(v) == StripRight(StripLeft(v))

\* the str of a sequence of characters; the names of the inputs that pass
\* validation are one character long once stripped
Text(v) == v[1]

\* ServiceData: Field(min_length=1, max_length=256) and validate_name on
\* name, Field(ge=0) on replicas
ServiceDataValid(service) ==
    /\ Len(service.name) >= 1
    /\ Len(service.name) <= 256
    /\ strip(service.name) # <<>>
    /\ \A i \in 1..Len(strip(service.name)) : strip(service.name)[i] \in AllowedChars
    /\ service.replicas >= 0

\* EdgeData: Field(min_length=1) and validate_service_names on source and
\* target, Field(ge=0) on the rates, Field(ge=0, le=1) on error_rate
EdgeDataValid(edge) ==
    /\ Len(edge.source) >= 1
    /\ Len(edge.target) >= 1
    /\ strip(edge.source) # <<>>
    /\ strip(edge.target) # <<>>
    /\ RLe(R(0), edge.call_rate)
    /\ RLe(R(0), edge.p50_latency)
    /\ RLe(R(0), edge.p95_latency)
    /\ RLe(R(0), edge.error_rate)
    /\ RLe(edge.error_rate, R(1))
    /\ RLe(R(0), edge.cost)

\* ServiceTopology.validate_no_self_loops, on the validated edges
validate_no_self_loops(edges) ==
    \A i \in 1..Len(edges) : strip(edges[i].source) # strip(edges[i].target)

\* ServiceTopology.model_validate(data) does not raise
ModelValidates(data) ==
    /\ \A i \in 1..Len(data.services) : ServiceDataValid(data.services[i])
    /\ \A i \in 1..Len(data.edges) : EdgeDataValid(data.edges[i])
    /\ validate_no_self_loops(data.edges)

\* the ServiceTopology that model_validate returns: the names stripped
model_validate(data) ==
    [services |-> [i \in 1..Len(data.services) |->
                      [name |-> Text(strip(data.services[i].name)),
                       zone |-> data.services[i].zone]],
     edges |-> [i \in 1..Len(data.edges) |->
                   [data.edges[i] EXCEPT !.source = Text(strip(data.edges[i].source)),
                                         !.target = Text(strip(data.edges[i].target))]]]

\* self.graph = nx.DiGraph() ahead of the validation, to compare with
\* build_from_dict
BuildFromDictResetFirst(G, data) ==
    IF ~ModelValidates(data) THEN [graph |-> EmptyGraph, raised |-> TRUE]
    ELSE [graph |-> build_from_topology(model_validate(data)), raised |-> FALSE]

\* GraphBuilder.build_from_dict on a builder that holds G: the graph the
\* builder holds afterwards, and whether the call raised
build_from_dict(G, data) ==
    IF ~ModelValidates(data) THEN [graph |-> G, raised |-> TRUE]
    ELSE [graph |-> build_from_topology(model_validate(data)), raised |-> FALSE]

\* service entries: good names, a name to strip, and names that fail
RawServices ==
    {[name |-> n, zone |-> NoneZone, replicas |-> 1] :
        n \in {<<"a">>, <<"b">>, <<" ", "c">>, <<>>, <<" ">>, <<"a", "!">>}}
    \cup {[name |-> <<"b">>, zone |-> "east", replicas |-> -1]}

\* an edge entry between two names, every other field at its default
RawEdge(source, target) ==
    [source |-> source, target |-> target, call_rate |-> R(0), p50_latency |-> R(0),
     p95_latency |-> R(0), error_rate |-> R(0), cost |-> R(0)]

\* edge entries: good ones, self-loops, names that fail, and numbers out of
\* range
RawEdges ==
    {RawEdge(<<"a">>, <<"b">>), RawEdge(<<"b">>, <<"d">>),
     [RawEdge(<<"b">>, <<"a">>) EXCEPT !.p50_latency = R(10), !.error_rate = R(1)],
     RawEdge(<<"a">>, <<"a">>), RawEdge(<<"a">>, <<"a", " ">>),
     RawEdge(<<>>, <<"b">>), RawEdge(<<"a">>, <<" ">>),
     [RawEdge(<<"a">>, <<"b">>) EXCEPT !.call_rate = R(-1)],
     [RawEdge(<<"a">>, <<"b">>) EXCEPT !.p50_latency = R(-1)],
     [RawEdge(<<"a">>, <<"b">>) EXCEPT !.error_rate = Frac(3, 2)],
     [RawEdge(<<"a">>, <<"b">>) EXCEPT !.error_rate = Frac(-1, 2)]}

\* the dictionaries given to build_from_dict: no service, one or two, and
\* no edge, one or two, a self-loop after a good edge among them
DataDicts ==
    {[services |-> sv, edges |-> el] :
        sv \in SeqsUpTo(RawServices, 1)
                \cup {<<[name |-> <<"a">>, zone |-> "east", replicas |-> 1],
                        [name |-> <<"b">>, zone |-> NoneZone, replicas |-> 1]>>},
        el \in SeqsUpTo(RawEdges, 1)
                \cup {<<RawEdge(<<"a">>, <<"b">>), RawEdge(<<"b">>, <<"b">>)>>,
                      <<RawEdge(<<"a">>, <<"b">>), RawEdge(<<"b">>, <<"a">>)>>}}

\* the largest number of edges add_shortcut_edge grows the builder's graph to
MaxBuilderEdges == 2

\* builder.build_from_dict(data)
BuildFromDict ==
    /\ ret = Idle
    /\ \E data \in DataDicts :
        /\ graph' = build_from_dict(graph, data).graph
        /\ ret' = [op |-> "build_from_dict", data |-> data, before |-> graph,
                   raised |-> build_from_dict(graph, data).raised]
    /\ UNCHANGED api

\* builder.add_shortcut_edge(source, target), for two names that may be
\* the same and may not be nodes yet
AddShortcutEdgeAnywhere ==
    /\ ret = Idle
    /\ number_of_edges(graph) < MaxBuilderEdges
    /\ \E source \in {"a", "b"}, target \in {"a", "b", "c"} :
        /\ graph' = add_shortcut_edge(graph, source, target).graph
        /\ ret' = [op |-> "add_shortcut_edge", source |-> source, target |-> target,
                   before |-> graph,
                   value |-> add_shortcut_edge(graph, source, target).value]
    /\ UNCHANGED api

\* builder.copy(): a builder that holds a copy of the graph
Copy ==
    /\ ret = Idle
    /\ ret' = [op |-> "copy", before |-> graph, value |-> [graph |-> graph]]
    /\ UNCHANGED graph
    /\ UNCHANGED api

BuilderNext ==
    \/ BuildFromTopology
    \/ BuildFromDict
    \/ AddShortcutEdgeAnywhere
    \/ RemoveEdge
    \/ Copy
    \/ Discard

BuilderSpec == Init /\ [][BuilderNext]_vars

(***************************************************************************)
(* The two entry paths that take a goal: the analyze command of the         *)
(* command line and POST /analyze.  A run goes step by step: ret holds the  *)
(* position of the run (pc), what it was given, and what it has done so     *)
(* far; graph is the graph of the builder of the run.                       *)
(***************************************************************************)
\* the goals given: the four goals, one in capitals, and an unknown one
GoalInputs == Goals \cup {"LATENCY", "fastest"}

\* str.lower(), on the goals given
lower(goal) == IF goal = "LATENCY" THEN "latency" ELSE goal

\* OptimizationOptions.validate_goal: the goal in lower case when it is
\* one of the four, and whether it is
validate_goal(goal) == [ok |-> lower(goal) \in Goals, value |-> lower(goal)]

\* ShortcutOptimizer(graph).set_goal(goal): OptimizationGoal(goal.lower())
\* raises ValueError for a string that is not a goal
set_goal_of(goal) ==
    IF lower(goal) \in Goals THEN [raised |-> FALSE, weights |-> set_goal(lower(goal))]
    ELSE [raised |-> TRUE, weights |-> DefaultWeights]

\* the EdgeData of the set from s to t
EdgeFrom(s, t) == CHOOSE e \in EdgeDataSet : e.source = s /\ e.target = t

\* the topologies analysed: those of the builder, and the chain a -> b -> c
AnalyzeTopologies ==
    Topologies \cup {[services |-> SubSeq(Services, 1, 3),
                      edges |-> <<EdgeFrom("a", "b"), EdgeFrom("b", "c")>>]}

\* request.options.alpha, beta and gamma: the field defaults, and weights
\* that are those of no goal
OptionWeights ==
    {DefaultWeights, [alpha |-> R(1), beta |-> R(3), gamma |-> R(0)]}

\* the weights left as set_goal made them, to compare with OverrideWeights
KeepPresetWeights(preset, options) == preset

\* optimizer.alpha = request.options.alpha, and so for beta and gamma,
\* after set_goal has installed preset
OverrideWeights(preset, options) == options

\* a run that has just been given its inputs
NewRun(path, topology, goal, options, k, pc) ==
    [op |-> "analyze", path |-> path, topology |-> topology, goal |-> goal,
     options |-> options, k |-> k,
     pc |-> pc, built |-> FALSE, measured |-> FALSE, weights |-> DefaultWeights,
     metrics |-> <<>>, shortcuts |-> <<>>]

\* cli analyze: JsonLoader.load_from_file gives the topology; the goal is
\* any string, and the command takes no weights
CliAnalyze ==
    /\ ret = Idle
    /\ \E topology \in AnalyzeTopologies, goal \in GoalInputs, k \in 1..MaxK :
        ret' = NewRun("cli", topology, goal, DefaultWeights, k, "loaded")
    /\ UNCHANGED graph
    /\ UNCHANGED api

\* POST /analyze: the body is validated as an AnalyzeRequest, goal included,
\* ahead of the handler; an invalid body is answered without calling it
HttpAnalyze ==
    /\ ret = Idle
    /\ \E topology \in AnalyzeTopologies, goal \in GoalInputs, options \in OptionWeights,
          k \in 1..MaxK :
        ret' = IF validate_goal(goal).ok
               THEN NewRun("http", topology, validate_goal(goal).value, options, k,
                           "loaded")
               ELSE NewRun("http", topology, goal, options, k, "rejected")
    /\ UNCHANGED graph
    /\ UNCHANGED api

\* builder = GraphBuilder(); graph = builder.build_from_topology(topology)
\* (build_from_dict of the dumped request on the HTTP path)
AnalyzeBuild ==
    /\ ret.op = "analyze"
    /\ ret.pc = "loaded"
    /\ graph' = build_from_topology(ret.topology)
    /\ ret' = [ret EXCEPT !.pc = "built", !.built = TRUE]
    /\ UNCHANGED api

\* MetricsCalculator(graph=graph).calculate_all()
AnalyzeCalculate ==
    /\ ret.op = "analyze"
    /\ ret.pc = "built"
    /\ ret' = [ret EXCEPT !.pc = "measured", !.measured = TRUE,
                          !.metrics = calculate_all(graph)]
    /\ UNCHANGED graph
    /\ UNCHANGED api

\* optimizer = ShortcutOptimizer(graph=graph); optimizer.set_goal(goal); on
\* the HTTP path the three weights are then set from request.options.  A
\* ValueError ends the run with an error.
AnalyzeSetGoal ==
    /\ ret.op = "analyze"
    /\ ret.pc = "measured"
    /\ ret' = IF set_goal_of(ret.goal).raised THEN [ret EXCEPT !.pc = "rejected"]
               ELSE [ret EXCEPT !.pc = "goal_set",
                                !.weights =
                                    IF ret.path = "http"
                                    THEN OverrideWeights(set_goal_of(ret.goal).weights,
                                                         ret.options)
                                    ELSE set_goal_of(ret.goal).weights]
    /\ UNCHANGED graph
    /\ UNCHANGED api

\* optimizer.find_shortcuts(k=k), and the result is put together
AnalyzeFind ==
    /\ ret.op = "analyze"
    /\ ret.pc = "goal_set"
    /\ ret' = [ret EXCEPT !.pc = "done",
                          !.shortcuts = find_shortcuts(graph, ret.weights, ret.k,
                                                       DefaultPolicy)]
    /\ UNCHANGED graph
    /\ UNCHANGED api

\* the run is over: the result is written or sent, or the error is
AnalyzeEnd ==
    /\ ret.op = "analyze"
    /\ ret.pc \in {"done", "rejected"}
    /\ ret' = Idle
    /\ UNCHANGED graph
    /\ UNCHANGED api

AnalyzeNext ==
    \/ CliAnalyze
    \/ HttpAnalyze
    \/ AnalyzeBuild
    \/ AnalyzeCalculate
    \/ AnalyzeSetGoal
    \/ AnalyzeFind
    \/ AnalyzeEnd

AnalyzeSpec == Init /\ [][AnalyzeNext]_vars

(***************************************************************************)
(* The calculator on its own: every field of the metrics, for calls during *)
(* which some of the library's computations raise, over the graphs of the  *)
(* builder and a star.                                                     *)
(***************************************************************************)
\* the number of spokes of the star
Spokes == 5

SpokeNames == [i \in 1..Spokes |-> <<"spoke_0", "spoke_1", "spoke_2", "spoke_3",
                                     "spoke_4", "spoke_5">>[i]]

\* the star of the tests: a hub that calls each spoke
star_topology ==
    [services |-> <<[name |-> "hub", zone |-> NoneZone]>>
                  \o [i \in 1..Spokes |-> [name |-> SpokeNames[i], zone |-> NoneZone]],
     edges |-> [i \in 1..Spokes |->
                  [source |-> "hub", target |-> SpokeNames[i], call_rate |-> R(20),
                   p50_latency |-> R(5), p95_latency |-> R(0), error_rate |-> R(0),
                   cost |-> R(0)]]]

\* what raises during a call: nothing, one computation, or all of them
RaiseSets == {{}, Algorithms} \cup {{x} : x \in Algorithms}

\* the sources for which Dijkstra raises NetworkXNoPath during a call
NoPathSets == {{}, {"a"}}

\* builder.build_from_topology(star_topology)
BuildStar ==
    /\ ret = Idle
    /\ graph' = build_from_topology(star_topology)
    /\ UNCHANGED ret
    /\ UNCHANGED api

\* MetricsCalculator(graph).calculate_all(), every field kept
CalculateAllUnder ==
    /\ ret = Idle
    /\ \E raises \in RaiseSets, no_path \in NoPathSets :
        ret' = [op |-> "calculate_all", raises |-> raises, no_path |-> no_path,
                before |-> graph,
                value |-> calculate_all_under(graph, raises, no_path)]
    /\ UNCHANGED graph
    /\ UNCHANGED api

MetricsNext ==
    \/ BuildFromTopology
    \/ BuildStar
    \/ AddShortcutEdge
    \/ RemoveEdge
    \/ CalculateAllUnder
    \/ Discard

MetricsSpec == Init /\ [][MetricsNext]_vars


(***************************************************************************)
(* ConnectionManager: the list of open WebSocket connections and a          *)
(* broadcast over it.  The event loop runs one coroutine at a time, from    *)
(* one await to the next: an action is what a coroutine does between two    *)
(* awaits.  broadcast holds the broadcast under way: next is the position   *)
(* of the list iterator of its for loop, sent the send_json calls made so   *)
(* far, and throughout the connections that have been in                    *)
(* active_connections since the broadcast started.                          *)
(***************************************************************************)
RECURSIVE list_remove(_, _)
\* list.remove(x) for a list that holds x: the first x is taken out
list_remove(l, x) ==
    IF Head(l) = x THEN Tail(l) ELSE <<Head(l)>> \o list_remove(Tail(l), x)

\* one round of `for connection in self.active_connections`, up to the
\* await inside send_json: the iterator takes the element at its position
\* of the list as it is now and moves on, and the send either raises or
\* not; past the end of the list the loop, and the broadcast, is over
ForConnection(b, connections, raised) ==
    IF b.next < Len(connections)
    THEN [b EXCEPT !.next = @ + 1,
                   !.sent = Append(@, [connection |-> connections[b.next + 1],
                                       raised |-> raised])]
    ELSE [b EXCEPT !.pc = "done"]

\* websocket_endpoint up to its first receive: manager.connect(websocket)
Connect ==
    /\ \E ws \in Connections :
        /\ websockets[ws] = "new"
        /\ websockets' = [websockets EXCEPT ![ws] = "open"]
        /\ active_connections' = Append(active_connections, ws)
    /\ UNCHANGED <<graph, ret, broadcast, user_scores, simulation_history, calls,
                   received>>

\* websocket_endpoint on WebSocketDisconnect: manager.disconnect(websocket)
Disconnect ==
    /\ \E ws \in Connections :
        /\ websockets[ws] = "open"
        /\ websockets' = [websockets EXCEPT ![ws] = "closed"]
        /\ active_connections' =
               IF ws \in Range(active_connections)
               THEN list_remove(active_connections, ws) ELSE active_connections
        /\ broadcast' =
               IF broadcast.pc = "sending"
               THEN [broadcast EXCEPT !.throughout = @ \ {ws}] ELSE broadcast
    /\ UNCHANGED <<graph, ret, user_scores, simulation_history, calls, received>>

\* manager.broadcast(message) is called: it runs up to its first await
BroadcastCall ==
    /\ broadcast = NoBroadcast
    /\ \E raised \in BOOLEAN :
        broadcast' = ForConnection([pc |-> "sending", next |-> 0, sent |-> <<>>,
                                    throughout |-> Range(active_connections)],
                                   active_connections, raised)
    /\ UNCHANGED <<graph, ret, websockets, active_connections, user_scores,
                   simulation_history, calls, received>>

\* the send awaited is over, with an exception or without: the except
\* clause passes and the loop goes on
BroadcastResume ==
    /\ broadcast.pc = "sending"
    /\ \E raised \in BOOLEAN :
        broadcast' = ForConnection(broadcast, active_connections, raised)
    /\ UNCHANGED <<graph, ret, websockets, active_connections, user_scores,
                   simulation_history, calls, received>>

\* the broadcast returns to its caller
BroadcastReturn ==
    /\ broadcast.pc = "done"
    /\ broadcast' = NoBroadcast
    /\ UNCHANGED <<graph, ret, websockets, active_connections, user_scores,
                   simulation_history, calls, received>>

BroadcastNext ==
    \/ Connect
    \/ Disconnect
    \/ BroadcastCall
    \/ BroadcastResume
    \/ BroadcastReturn

BroadcastSpec == Init /\ [][BroadcastNext]_vars

(***************************************************************************)
(* The gamification endpoints: user_scores maps a user id to its UserScore, *)
(* simulation_history lists the results recorded.  A handler runs without   *)
(* interruption up to an await that suspends it.  The only awaits are those *)
(* of manager.broadcast, which suspends in send_json when there is a        *)
(* connection to send to, and changes neither store; calls holds the        *)
(* record_simulation calls suspended inside update_user_score.              *)
(***************************************************************************)
\* the points added with the achievements, and their thresholds
FirstOptimizationBonus == 10
HundredOptimizationsBonus == 500
PerfectScoreBonus == 200
HundredOptimizations == 100
PerfectImprovement == 50

\* UserScore(user_id=..., username=..., last_active=...): the field defaults
NewUserScore == [score |-> 0, optimizations |-> 0, streak |-> 0, achievements |-> <<>>]

\* if user_id not in user_scores: user_scores[user_id] = UserScore(...)
WithUser(scores, user_id) ==
    IF user_id \in DOMAIN scores THEN scores ELSE scores @@ (user_id :> NewUserScore)

\* the test that never finds the achievement, to compare with Has
HasNot(user, id) == FALSE

\* id in user.achievements
Has(user, id) == id \in Range(user.achievements)

\* user.achievements.append(id); user.score += bonus
Unlock(user, id, bonus) ==
    [user EXCEPT !.achievements = Append(@, id), !.score = @ + bonus]

\* the test for first_optimization one optimization late, to compare with
\* FirstOptimizationDue
FirstOptimizationLate(user) ==
    user.optimizations = 2 /\ ~Has(user, "first_optimization")

\* user.optimizations == 1 and "first_optimization" not in user.achievements
FirstOptimizationDue(user) ==
    user.optimizations = 1 /\ ~Has(user, "first_optimization")

\* user.optimizations >= 100 and "hundred_optimizations" not in
\* user.achievements
HundredOptimizationsDue(user) ==
    user.optimizations >= HundredOptimizations /\ ~Has(user, "hundred_optimizations")

\* user.score += points; if optimization_completed: user.optimizations += 1
Credit(user, points, optimization_completed) ==
    [user EXCEPT !.score = @ + points,
                 !.optimizations = IF optimization_completed THEN @ + 1 ELSE @]

\* the two achievement checks of update_user_score, one after the other
CheckFirst(user) ==
    IF FirstOptimizationDue(user)
    THEN Unlock(user, "first_optimization", FirstOptimizationBonus) ELSE user

CheckHundred(user) ==
    IF HundredOptimizationsDue(user)
    THEN Unlock(user, "hundred_optimizations", HundredOptimizationsBonus) ELSE user

UpdatedUser(user, points, optimization_completed) ==
    CheckHundred(CheckFirst(Credit(user, points, optimization_completed)))

\* update_user_score up to its broadcast: the store afterwards, and whether
\* new_achievements is not empty
update_user_score(scores, user_id, points, optimization_completed) ==
    [scores |-> [WithUser(scores, user_id) EXCEPT
                    ![user_id] = UpdatedUser(@, points, optimization_completed)],
     new_achievements |->
         Len(UpdatedUser(WithUser(scores, user_id)[user_id], points,
                         optimization_completed).achievements)
             > Len(WithUser(scores, user_id)[user_id].achievements)]

\* int(x) for the float x: the fraction is cut off, towards 0
int(x) == IF x[1] >= 0 THEN x[1] \div x[2] ELSE -((-x[1]) \div x[2])

\* improvement of record_simulation, in percent
Improvement(original_path_length, optimized_path_length) ==
    IF original_path_length > 0
    THEN RMul(RDiv(RSub(R(original_path_length), R(optimized_path_length)),
                   R(original_path_length)), R(100))
    ELSE R(0)

\* record_simulation after update_user_score has returned: the check for
\* perfect_score
CheckPerfect(scores, user_id, improvement) ==
    IF /\ RLe(R(PerfectImprovement), improvement)
       /\ user_id \in DOMAIN scores
       /\ ~Has(scores[user_id], "perfect_score")
    THEN [scores EXCEPT ![user_id] = Unlock(@, "perfect_score", PerfectScoreBonus)]
    ELSE scores

\* the bounds on what one user is credited with
OptimizationsBound(user_id) ==
    IF user_id = "u1" THEN MaxOptimizations ELSE MaxOtherOptimizations

OptimizationsOf(user_id) ==
    IF user_id \in DOMAIN user_scores THEN user_scores[user_id].optimizations ELSE 0

\* the points of POST /users/{user_id}/score, and the path lengths of
\* POST /simulations: an improvement of a half, of a third, and no original
\* path length
Points == {0, 50}
Simulations == {<<2, 1>>, <<3, 2>>, <<0, 1>>}

\* GET /users/{user_id}/score
GetUserScore ==
    /\ \E user_id \in Users :
        user_scores' = WithUser(user_scores, user_id)
    /\ UNCHANGED <<graph, ret, websockets, active_connections, broadcast,
                   simulation_history, calls, received>>

\* POST /users/{user_id}/score: the store is updated before the broadcast,
\* and nothing follows the broadcast
UpdateUserScore ==
    /\ \E user_id \in Users, points \in Points, optimization_completed \in BOOLEAN :
        /\ received[user_id].points + points <= MaxPoints
        /\ optimization_completed => OptimizationsOf(user_id) < OptimizationsBound(user_id)
        /\ user_scores' = update_user_score(user_scores, user_id, points,
                                            optimization_completed).scores
        /\ received' = [received EXCEPT
                           ![user_id].points = @ + points,
                           ![user_id].completed =
                               IF optimization_completed THEN @ + 1 ELSE @]
    /\ UNCHANGED <<graph, ret, websockets, active_connections, broadcast,
                   simulation_history, calls>>

\* record_simulation from the call of update_user_score on, for the store
\* r that update_user_score leaves: suspended in its broadcast, or on to
\* the check for perfect_score
RecordSimulationFrom(r, user_id, improvement) ==
    \E suspended \in BOOLEAN :
        /\ suspended => (r.new_achievements /\ active_connections # <<>>
                         /\ Len(calls) < MaxCalls)
        /\ user_scores' = IF suspended THEN r.scores
                          ELSE CheckPerfect(r.scores, user_id, improvement)
        /\ calls' = IF suspended
                    THEN Append(calls, [user_id |-> user_id, improvement |-> improvement])
                    ELSE calls

\* POST /simulations
RecordSimulation ==
    /\ Len(simulation_history) < MaxHistory
    /\ \E user_id \in Users, lengths \in Simulations :
        /\ OptimizationsOf(user_id) < OptimizationsBound(user_id)
        /\ simulation_history' =
               Append(simulation_history,
                      [user_id |-> user_id,
                       points_earned |-> int(RMul(Improvement(lengths[1], lengths[2]),
                                                  R(10)))])
        /\ RecordSimulationFrom(
               update_user_score(user_scores, user_id,
                                 int(RMul(Improvement(lengths[1], lengths[2]), R(10))),
                                 TRUE),
               user_id, Improvement(lengths[1], lengths[2]))
        /\ received' = [received EXCEPT
                           ![user_id].points =
                               @ + int(RMul(Improvement(lengths[1], lengths[2]), R(10))),
                           ![user_id].completed = @ + 1]
    /\ UNCHANGED <<graph, ret, websockets, active_connections, broadcast>>

\* a suspended record_simulation goes on: the check for perfect_score; the
\* broadcasts that follow change nothing
RecordSimulationResume ==
    /\ \E i \in DOMAIN calls :
        /\ user_scores' = CheckPerfect(user_scores, calls[i].user_id,
                                       calls[i].improvement)
        /\ calls' = SubSeq(calls, 1, i - 1) \o SubSeq(calls, i + 1, Len(calls))
    /\ UNCHANGED <<graph, ret, websockets, active_connections, broadcast,
                   simulation_history, received>>

ScoreNext ==
    \/ Connect
    \/ Disconnect
    \/ GetUserScore
    \/ UpdateUserScore
    \/ RecordSimulation
    \/ RecordSimulationResume

ScoreSpec == Init /\ [][ScoreNext]_vars

(***************************************************************************)
(* Properties of find_shortcuts.  In a state with ret.op =                 *)
(* "find_shortcuts", ret.before is the graph at call time, ret.candidates  *)
(* the pairs _generate_candidates produced, ret.evaluated the accepted     *)
(* candidates and ret.value the list returned.                              *)
(***************************************************************************)
AfterFindShortcuts == ret.op = "find_shortcuts"

\* the pairs of a list of candidates
PairsOf(list) == {<<list[i].source, list[i].target>> : i \in DOMAIN list}

\* both nodes of the pair carry a non-empty zone
ZonedPair(G, p) == Truthy(ZoneOf(G, p[1])) /\ Truthy(ZoneOf(G, p[2]))

\* the pair passes the forbidden-pairs and the minimum-path-length rules
PassesPairAndPathRules(G, policy, p) ==
    /\ p \notin policy.forbidden_pairs
    /\ <<p[2], p[1]>> \notin policy.forbidden_pairs
    /\ ~MinPathRejects(AllDist(G), policy, p[1], p[2])

\* C1: one candidate-generation pass produces at most
\* policy.max_new_edges_per_service pairs with the same source.
C1_PerSourceLimit ==
    AfterFindShortcuts =>
        \A n \in NodeSet(ret.before) :
            Cardinality({i \in DOMAIN ret.candidates : ret.candidates[i][1] = n})
                <= ret.policy.max_new_edges_per_service

\* C2 as stated: under require_same_zone every returned candidate has both
\* zones non-empty and equal.
C2_SameZoneStrict ==
    (AfterFindShortcuts /\ ret.policy.require_same_zone) =>
        \A p \in PairsOf(ret.value) :
            /\ ZonedPair(ret.before, p)
            /\ ZoneOf(ret.before, p[1]) = ZoneOf(ret.before, p[2])

\* C2 amended: under require_same_zone every returned candidate whose two
\* nodes both have a non-empty zone has equal zones, and a pair in which a
\* node has no zone is not rejected by the rule: it is generated whenever
\* the other rules let it through.
C2_SameZoneWhenBothZoned ==
    (AfterFindShortcuts /\ ret.policy.require_same_zone) =>
        /\ \A p \in PairsOf(ret.value) :
              ZonedPair(ret.before, p) =>
                  ZoneOf(ret.before, p[1]) = ZoneOf(ret.before, p[2])
        /\ \A p \in OpenPairs(ret.before) :
              ( /\ ~ZonedPair(ret.before, p)
                /\ PassesPairAndPathRules(ret.before, ret.policy, p)
                /\ ~AllowedZonesRejects(ret.before, ret.policy, p[1], p[2])
                /\ ret.policy.max_new_edges_per_service > 0 )
              => p \in Range(ret.candidates)

\* a find_shortcuts call under require_same_zone that returned a pair with
\* an unzoned node and a pair inside one zone
C2_Witness ==
    /\ AfterFindShortcuts
    /\ ret.policy.require_same_zone
    /\ \E p \in PairsOf(ret.value) : ~ZonedPair(ret.before, p)
    /\ \E p \in PairsOf(ret.value) : ZonedPair(ret.before, p)

\* the allowed-zones rule as C3 states it: TRUE when the pair is retained
ClaimedAllowed(G, policy, p) ==
    ZoneOf(G, p[1]) \in DOMAIN policy.allowed_zones =>
        \/ ZoneOf(G, p[2]) \in policy.allowed_zones[ZoneOf(G, p[1])]
        \/ ~Truthy(ZoneOf(G, p[2]))

\* C3: among the pairs the other rules let through, the allowed-zones rule
\* retains (u,v) exactly when u's zone is not a key of allowed_zones, or
\* v's zone is in the list of u's zone, or v's zone is empty or unset.
C3_AllowedZonesRule ==
    (AfterFindShortcuts /\ ret.policy.max_new_edges_per_service > 0) =>
        \A p \in OpenPairs(ret.before) :
            ( /\ PassesPairAndPathRules(ret.before, ret.policy, p)
              /\ ~SameZoneRejects(ret.before, ret.policy, p[1], p[2]) )
            => (p \in Range(ret.candidates)
                    <=> ClaimedAllowed(ret.before, ret.policy, p))

\* every ordered pair of distinct nodes is an edge
Complete(G) == \A s \in NodeSet(G), t \in NodeSet(G) : s # t => has_edge(G, s, t)

\* C4: every pair find_shortcuts generates or returns has two different
\* nodes of the graph and is not an edge of the graph at call time; on a
\* complete directed graph the list returned is empty.
C4_NewPairsOnly ==
    AfterFindShortcuts =>
        /\ \A p \in Range(ret.candidates) \cup PairsOf(ret.value) :
              /\ p[1] # p[2]
              /\ {p[1], p[2]} \subseteq NodeSet(ret.before)
              /\ ~has_edge(ret.before, p[1], p[2])
        /\ Complete(ret.before) => (ret.candidates = <<>> /\ ret.value = <<>>)

\* find_shortcuts(k > 0) was called on a complete graph of two nodes
C4_Witness ==
    /\ AfterFindShortcuts
    /\ ret.k > 0
    /\ number_of_nodes(ret.before) >= 2
    /\ Complete(ret.before)
    /\ ret.value = <<>>

\* C5: for every pair (a,b) of policy.forbidden_pairs, find_shortcuts
\* returns neither a candidate a->b nor a candidate b->a.
C5_ForbiddenBothOrders ==
    AfterFindShortcuts =>
        \A p \in ret.policy.forbidden_pairs :
            /\ p \notin PairsOf(ret.value)
            /\ <<p[2], p[1]>> \notin PairsOf(ret.value)

\* find_shortcuts returned candidates under a policy with a forbidden pair
\* that is open in both orders, its reverse at distance two or more
C5_Witness ==
    /\ AfterFindShortcuts
    /\ ret.value # <<>>
    /\ \E p \in ret.policy.forbidden_pairs :
          /\ {p, <<p[2], p[1]>>} \subseteq OpenPairs(ret.before)
          /\ HasPath(AllDist(ret.before), p[2], p[1])


\* the optimizer's objective of the graph G, computed afresh
ObjectiveOf(G, w) == calculate_objective(w, calculate_all(G)[1])

\* the optimizer's objective of G with the trial edge p added
TrialObjective(G, w, p) ==
    ObjectiveOf(add_edge(G, p[1], p[2], TrialAttr(estimate_shortcut_latency(G), R(0))), w)

\* C6 for the baseline objective of the graph at call time
OnlyImprovementsFrom(baseline_obj) ==
    /\ PairsOf(ret.value) \subseteq Range(ret.candidates)
    /\ \A i \in DOMAIN ret.value :
          /\ RLt(ret.value[i].delta_objective, R(0))
          /\ RLt(R(0), ret.value[i].score)
          /\ ret.value[i].delta_objective =
                RSub(TrialObjective(ret.before, set_goal(ret.goal),
                                    <<ret.value[i].source, ret.value[i].target>>),
                     baseline_obj)

\* C6: every candidate find_shortcuts returns comes from a generated pair,
\* carries as delta_objective the objective of the trial graph with the new
\* edge minus the baseline objective, has delta_objective < 0 and has
\* score > 0; so no generated pair whose trial gives delta_objective >= 0
\* is emitted.
C6_OnlyImprovements ==
    (AfterFindShortcuts /\ ret.value # <<>>) =>
        OnlyImprovementsFrom(ObjectiveOf(ret.before, set_goal(ret.goal)))

\* find_shortcuts returned a candidate and dropped a generated pair whose
\* trial does not lower the objective
C6_Witness ==
    /\ AfterFindShortcuts
    /\ ret.value # <<>>
    /\ \E p \in Range(ret.candidates) \ PairsOf(ret.evaluated) :
          RLe(ObjectiveOf(ret.before, set_goal(ret.goal)),
              TrialObjective(ret.before, set_goal(ret.goal), p))

\* C7 for the hop distances D of the graph at call time
MinPathHolds(D) ==
    /\ \A p \in PairsOf(ret.value) :
          \/ ~HasPath(D, p[1], p[2])
          \/ D[p[1]][p[2]] >= ret.policy.min_path_length_to_shortcut
    /\ \A p \in OpenPairs(ret.before) :
          ( /\ ~HasPath(D, p[1], p[2])
            /\ p \notin ret.policy.forbidden_pairs
            /\ <<p[2], p[1]>> \notin ret.policy.forbidden_pairs
            /\ ~SameZoneRejects(ret.before, ret.policy, p[1], p[2])
            /\ ~AllowedZonesRejects(ret.before, ret.policy, p[1], p[2])
            /\ ret.policy.max_new_edges_per_service > 0 )
          => p \in Range(ret.candidates)

\* C7: every candidate (u,v) find_shortcuts returns has no directed path
\* from u to v in the graph at call time or a hop distance of at least
\* min_path_length_to_shortcut; and a pair with no path that the other
\* rules let through is always generated.
C7_MinPathLength == AfterFindShortcuts => MinPathHolds(AllDist(ret.before))

\* under min_path_length_to_shortcut = 3, find_shortcuts returned a pair
\* with no path while an open pair at distance two was left out
C7_Witness ==
    /\ AfterFindShortcuts
    /\ ret.policy.min_path_length_to_shortcut = 3
    /\ \E p \in PairsOf(ret.value) : ~HasPath(AllDist(ret.before), p[1], p[2])
    /\ \E p \in OpenPairs(ret.before) \ Range(ret.candidates) :
          /\ HasPath(AllDist(ret.before), p[1], p[2])
          /\ AllDist(ret.before)[p[1]][p[2]] = 2

\* C8: find_shortcuts(k) returns min(k, number of accepted candidates)
\* candidates, all of them accepted ones, in non-increasing score order,
\* and no accepted candidate left out has a score above a returned one.
C8_TopK ==
    AfterFindShortcuts =>
        /\ Len(ret.value) <= ret.k
        /\ Len(ret.value) = (IF ret.k < Len(ret.evaluated) THEN ret.k
                             ELSE Len(ret.evaluated))
        /\ Range(ret.value) \subseteq Range(ret.evaluated)
        /\ \A i \in DOMAIN ret.value, j \in DOMAIN ret.value :
              i < j => RLe(ret.value[j].score, ret.value[i].score)
        /\ \A c \in Range(ret.evaluated) \ Range(ret.value) :
              \A i \in DOMAIN ret.value : RLe(c.score, ret.value[i].score)

\* find_shortcuts(2) returned two candidates of different scores, left an
\* accepted one out, and the accepted list was not in score order
C8_Witness ==
    /\ AfterFindShortcuts
    /\ ret.k = 2
    /\ Len(ret.value) = 2
    /\ Len(ret.evaluated) > 2
    /\ RLt(ret.value[2].score, ret.value[1].score)
    /\ \E i \in DOMAIN ret.evaluated, j \in DOMAIN ret.evaluated :
          i < j /\ RLt(ret.evaluated[i].score, ret.evaluated[j].score)

\* the calls that only read the graph
QueryOps == {"find_shortcuts", "get_removal_candidates", "simulate_shortcuts",
             "calculate_all"}

\* C9: after find_shortcuts, get_removal_candidates, simulate_shortcuts or
\* calculate_all the graph (nodes, zones, edges, edge attributes) is the
\* graph the call started from.
C9_GraphUnchanged == ret.op \in QueryOps => graph = ret.before

\* find_shortcuts tried trial edges on a graph with edges and accepted some
C9_Witness ==
    /\ AfterFindShortcuts
    /\ number_of_edges(ret.before) > 0
    /\ Len(ret.evaluated) > 1
    /\ graph = ret.before

\* C10: the objective ShortcutOptimizer._calculate_objective gives a graph
\* equals MetricsCalculator.get_objective_value for the same weights:
\* alpha * average_path_length + beta * max_betweenness + gamma * total cost.
C10_ObjectiveAgrees ==
    ret.op = "get_objective_value" =>
        calculate_objective(set_goal(ret.goal), calculate_all(ret.before)[1])
            = ret.value


(***************************************************************************)
(* Properties of get_removal_candidates and simulate_shortcuts.            *)
(***************************************************************************)
AfterRemovalCandidates == ret.op = "get_removal_candidates"

\* C11 for one returned entry e
RemovableEdge(G, w, e) ==
    /\ has_edge(G, e.source, e.target)
    /\ is_weakly_connected(nx_remove_edge(G, e.source, e.target))
    /\ e.impact = RSub(ObjectiveOf(nx_remove_edge(G, e.source, e.target), w),
                       ObjectiveOf(G, w))
    /\ RLt(e.impact, RemovalLimit)
    /\ RLt(RSub(get_objective_value(nx_remove_edge(G, e.source, e.target),
                                    w.alpha, w.beta, w.gamma),
                get_objective_value(G, w.alpha, w.beta, w.gamma)),
           RemovalLimit)

\* C11: every entry get_removal_candidates(k) returns names an existing
\* edge whose removal leaves the graph weakly connected and raises the
\* objective by less than 0.1; the list has at most k entries in ascending
\* impact order, and it is empty for a graph with a single edge.
C11_RemovalCandidates ==
    AfterRemovalCandidates =>
        /\ Len(ret.value) <= ret.k
        /\ \A i \in DOMAIN ret.value :
              RemovableEdge(ret.before, set_goal(ret.goal), ret.value[i])
        /\ \A i \in DOMAIN ret.value, j \in DOMAIN ret.value :
              i < j => RLe(ret.value[i].impact, ret.value[j].impact)
        /\ number_of_edges(ret.before) <= 1 => ret.value = <<>>

\* get_removal_candidates returned two edges of different impact and left
\* out an edge of the graph
C11_Witness ==
    /\ AfterRemovalCandidates
    /\ Len(ret.value) = 2
    /\ RLt(ret.value[1].impact, ret.value[2].impact)
    /\ number_of_edges(ret.before) > 2


\* C12: simulate_shortcuts([]) returns the graph metrics and the node
\* metrics that calculate_all gives for the unmodified graph.
C12_SimulateNothing ==
    (ret.op = "simulate_shortcuts" /\ ret.shortcuts = <<>>) =>
        ret.value = calculate_all(ret.before)

\* simulate_shortcuts([]) was called on a graph with edges
C12_Witness ==
    /\ ret.op = "simulate_shortcuts"
    /\ ret.shortcuts = <<>>
    /\ number_of_edges(ret.before) >= 2
    /\ ret.value[1].max_betweenness # R(0)


\* C20: with policy.max_new_edges_per_service = 0, find_shortcuts generates
\* no candidate and returns the empty list, for every graph and every k.
C20_NoEdgesAllowed ==
    (AfterFindShortcuts /\ ret.policy.max_new_edges_per_service = 0) =>
        /\ ret.candidates = <<>>
        /\ ret.value = <<>>

\* find_shortcuts(k > 0) returned nothing under a limit of 0, for a graph
\* on which the default policy has a shortcut to return
C20_Witness ==
    /\ AfterFindShortcuts
    /\ ret.policy.max_new_edges_per_service = 0
    /\ ret.k > 0
    /\ ret.value = <<>>
    /\ number_of_edges(ret.before) = 2
    /\ find_shortcuts(ret.before, set_goal(ret.goal), ret.k, DefaultPolicy) # <<>>

\* every edge of G has a weight above 0
PositiveWeights(G) == \A e \in G.edges : RLt(R(0), G.attr[e].weight)

\* C18: every edge has weight > 0 in the graph that build_from_topology and
\* add_shortcut_edge produce, in the trial copy that _evaluate_candidate
\* makes for a candidate (the trial edge weighs the estimated latency), and
\* in the graph that simulate_shortcuts simulates.
C18_PositiveWeights ==
    /\ PositiveWeights(graph)
    /\ AfterFindShortcuts =>
           \A i \in 1..Len(ret.candidates) :
               /\ RLt(R(0), estimate_shortcut_latency(ret.before))
               /\ PositiveWeights(
                      TrialWithEdge(ret.before, ret.candidates[i][1],
                                    ret.candidates[i][2],
                                    TrialAttr(estimate_shortcut_latency(ret.before),
                                              R(0))).trial)
    /\ ret.op = "simulate_shortcuts" =>
           PositiveWeights(SimulatedGraphs(ret.before, ret.shortcuts).trial)

(***************************************************************************)
(* Properties of calculate_all, checked under MetricsSpec.                  *)
(***************************************************************************)
\* calculate_all has returned the metrics of a graph with a node
AfterCalculateAll ==
    /\ ret.op = "calculate_all"
    /\ number_of_nodes(ret.before) > 0

\* the three conditions under which the coefficient is said to be 0
DegenerateForSmallWorld(gm) ==
    \/ gm.node_count < 3
    \/ gm.average_path_length = R(0)
    \/ gm.edge_count = 0

\* C13, as stated: for a non-empty graph, small_world_coefficient is 0
\* exactly when node_count < 3, or average_path_length = 0, or
\* edge_count = 0, and non-zero in every other case.
C13_ZeroExactlyWhenDegenerate ==
    (AfterCalculateAll /\ ret.raises = {}) =>
        ((ret.value[1].small_world_coefficient = ZeroCoefficient)
            <=> DegenerateForSmallWorld(ret.value[1]))

\* C13, amended: for a non-empty graph, small_world_coefficient is 0
\* exactly when node_count < 3, or average_path_length = 0, or
\* edge_count = 0, or average_clustering = 0; in every other case it is
\* the non-zero quotient of the clustering ratio by the path-length ratio.
C13_ZeroExactlyWhenDegenerateOrUnclustered ==
    AfterCalculateAll =>
        /\ (ret.value[1].small_world_coefficient = ZeroCoefficient)
               <=> (\/ DegenerateForSmallWorld(ret.value[1])
                    \/ ret.value[1].average_clustering = R(0))
        /\ ret.value[1].small_world_coefficient # ZeroCoefficient =>
               /\ ~ret.value[1].small_world_coefficient.zero
               /\ RLt(R(0), ret.value[1].small_world_coefficient.gamma)
               /\ RLt(R(0), ret.value[1].small_world_coefficient.path_length)

\* a graph of three nodes or more, with edges, paths and a triangle: the
\* coefficient is not 0
C13_Witness ==
    /\ AfterCalculateAll
    /\ ret.raises = {}
    /\ ~DegenerateForSmallWorld(ret.value[1])
    /\ ret.value[1].average_clustering # R(0)
    /\ ret.value[1].small_world_coefficient # ZeroCoefficient


\* C16: whatever raises among betweenness, closeness, clustering and
\* PageRank, calculate_all returns metrics for every node, with the
\* fallback in the place of what raised (betweenness 0, closeness 0,
\* clustering 0, PageRank 1 / n); average clustering, average path length,
\* weighted average path length and diameter are 0 when they raise.
C16_Fallbacks ==
    AfterCalculateAll =>
        /\ DOMAIN ret.value[2] = NodeSet(ret.before)
        /\ \A v \in NodeSet(ret.before) :
            /\ "betweenness" \in ret.raises =>
                   ret.value[2][v].betweenness_centrality = R(0)
            /\ "closeness" \in ret.raises =>
                   ret.value[2][v].closeness_centrality = R(0)
            /\ "clustering" \in ret.raises =>
                   ret.value[2][v].clustering_coefficient = R(0)
            /\ "pagerank" \in ret.raises =>
                   ret.value[2][v].pagerank = Frac(1, number_of_nodes(ret.before))
        /\ "average_clustering" \in ret.raises =>
               ret.value[1].average_clustering = R(0)
        /\ "average_path_length" \in ret.raises =>
               ret.value[1].average_path_length = R(0)
        /\ "weighted_average_path_length" \in ret.raises =>
               ret.value[1].weighted_average_path_length = R(0)
        /\ "diameter" \in ret.raises => ret.value[1].diameter = 0
        /\ ret.value[1].node_count = number_of_nodes(ret.before)

\* every computation raises on a graph for which none of them would have
\* given its fallback: the metrics are returned all the same
C16_Witness ==
    /\ AfterCalculateAll
    /\ ret.raises = Algorithms
    /\ number_of_nodes(ret.before) = 3
    /\ number_of_edges(ret.before) = 4
    /\ ret.value[1].diameter = 0
    /\ calculate_all_under(ret.before, {}, {})[1].diameter > 0
    /\ calculate_all_under(ret.before, {}, {})[1].max_betweenness # R(0)
    /\ calculate_all_under(ret.before, {}, {})[1].average_clustering # R(0)
    /\ \A v \in NodeSet(ret.before) :
           calculate_all_under(ret.before, {}, {})[2][v].closeness_centrality # R(0)


\* the k-th smallest of the total degrees of the graph G, by counting
KthSmallestDegree(G, k) ==
    CHOOSE x \in {in_degree(G, v) + out_degree(G, v) : v \in NodeSet(G)} :
        /\ Cardinality({v \in NodeSet(G) : in_degree(G, v) + out_degree(G, v) < x}) < k
        /\ k <= Cardinality({v \in NodeSet(G) : in_degree(G, v) + out_degree(G, v) <= x})

\* the 70th percentile of the total degrees of the n nodes of G, linearly
\* interpolated: at position 0.7 * (n - 1) of the sorted degrees, counted
\* from 0, between the two entries around it
ClaimedHubThreshold(G, n) ==
    RAdd(R(KthSmallestDegree(G, (7 * (n - 1)) \div 10 + 1)),
         RMul(Frac((7 * (n - 1)) % 10, 10),
              R(KthSmallestDegree(G, IF (7 * (n - 1)) \div 10 + 2 <= n
                                     THEN (7 * (n - 1)) \div 10 + 2 ELSE n)
                - KthSmallestDegree(G, (7 * (n - 1)) \div 10 + 1))))

MaxTotalDegree(nm) ==
    CHOOSE d \in {nm[v].total_degree : v \in DOMAIN nm} :
        \A v \in DOMAIN nm : nm[v].total_degree <= d

HubRule(G, nm, threshold) ==
    \A v \in NodeSet(G) :
        /\ nm[v].total_degree = in_degree(G, v) + out_degree(G, v)
        /\ nm[v].is_hub <=> RLe(threshold, R(nm[v].total_degree))
        /\ nm[v].total_degree = MaxTotalDegree(nm) => nm[v].is_hub

\* C19: calculate_all flags a node is_hub exactly when its total degree is
\* at least the linearly interpolated 70th percentile of the total degrees
\* of all nodes; every node of maximal total degree is a hub, the centre of
\* the star among them; hub_count is the number of nodes flagged.
C19_Hubs ==
    AfterCalculateAll =>
        /\ HubRule(ret.before, ret.value[2],
                   ClaimedHubThreshold(ret.before, number_of_nodes(ret.before)))
        /\ ret.value[1].hub_count =
               Cardinality({v \in NodeSet(ret.before) : ret.value[2][v].is_hub})
        /\ ret.before = build_from_topology(star_topology) =>
               ret.value[2]["hub"].is_hub

\* the metrics of the star: its centre is a hub
C19_Witness ==
    /\ AfterCalculateAll
    /\ ret.raises = {}
    /\ ret.before = build_from_topology(star_topology)
    /\ ret.value[2]["hub"].total_degree = Spokes
    /\ ret.value[2]["hub"].is_hub
    /\ ret.value[1].hub_count > 0


\* C21: calculate_all on a graph of no node returns a GraphMetrics with
\* every number 0 and every flag false, and an empty map of node metrics,
\* whatever the graph algorithms would do if they were run.
C21_EmptyGraph ==
    (ret.op = "calculate_all" /\ number_of_nodes(ret.before) = 0) =>
        /\ ret.value[2] = <<>>
        /\ DOMAIN ret.value[2] = {}
        /\ ret.value[1].node_count = 0
        /\ ret.value[1].edge_count = 0
        /\ ret.value[1].density = R(0)
        /\ ret.value[1].average_path_length = R(0)
        /\ ret.value[1].weighted_average_path_length = R(0)
        /\ ret.value[1].diameter = 0
        /\ ret.value[1].average_clustering = R(0)
        /\ ~ret.value[1].is_connected
        /\ ret.value[1].strongly_connected_components = 0
        /\ ret.value[1].weakly_connected_components = 0
        /\ ret.value[1].max_betweenness = R(0)
        /\ ret.value[1].total_load = R(0)
        /\ ret.value[1].hub_count = 0
        /\ ret.value[1].bottleneck_count = 0
        /\ ret.value[1].small_world_coefficient = ZeroCoefficient

\* calculate_all has returned for the graph of no node, in a call in which
\* every algorithm would have raised
C21_Witness ==
    /\ ret.op = "calculate_all"
    /\ ret.before = EmptyGraph
    /\ ret.raises = Algorithms
    /\ ret.value[1].node_count = 0

\* the nodes of W and those one edge of E away from them
OneMore(E, W) == W \cup {e[2] : e \in {f \in E : f[1] \in W}}

RECURSIVE Within(_, _, _)
\* the nodes that s reaches along at most n edges of E
Within(E, s, n) == IF n = 0 THEN {s} ELSE OneMore(E, Within(E, s, n - 1))

\* t is reachable from s in G
Reaches(G, s, t) == t \in Within(G.edges, s, number_of_nodes(G))

\* the number of edges of a shortest path from s to t, t reachable from s
Hops(G, s, t) ==
    CHOOSE n \in 0..number_of_nodes(G) :
        /\ t \in Within(G.edges, s, n)
        /\ n = 0 \/ t \notin Within(G.edges, s, n - 1)

\* G is weakly connected: every node is reached from the first one when
\* the edges are taken in both directions
WeaklyConnected(G) ==
    Within(G.edges \cup {<<e[2], e[1]>> : e \in G.edges}, G.nodes[1],
           number_of_nodes(G)) = NodeSet(G)

\* the strongly connected components of G of the largest size
LargestComponents(G) ==
    LET C == {{t \in NodeSet(G) : Reaches(G, s, t) /\ Reaches(G, t, s)} :
                 s \in NodeSet(G)}
    IN  {c \in C : \A c2 \in C : Cardinality(c2) <= Cardinality(c)}

\* the mean of Hops over the set P of pairs, 0 for no pair
MeanHops(G, P) ==
    IF P = {} THEN R(0)
    ELSE Frac(ISum([p \in P |-> Hops(G, p[1], p[2])], P), Cardinality(P))

\* the largest of Hops over the ordered pairs of the set S of nodes
MaxHops(G, S) ==
    CHOOSE m \in 0..number_of_nodes(G) :
        /\ \A s, t \in S : Hops(G, s, t) <= m
        /\ \E s, t \in S : Hops(G, s, t) = m

\* C22: when it does not raise, average_path_length is the mean hop count
\* over the ordered pairs of distinct nodes inside the largest strongly
\* connected component, if the graph is weakly connected and that component
\* has more than one node; otherwise it is the mean hop count over all
\* ordered pairs (s, t), s # t, with t reachable from s, and 0 when there
\* is no such pair.
C22_AveragePathLength ==
    (AfterCalculateAll /\ "average_path_length" \notin ret.raises) =>
        IF WeaklyConnected(ret.before)
           /\ \E c \in LargestComponents(ret.before) : Cardinality(c) > 1
        THEN \E c \in LargestComponents(ret.before) :
                ret.value[1].average_path_length =
                    MeanHops(ret.before, {p \in c \X c : p[1] # p[2]})
        ELSE ret.value[1].average_path_length =
                MeanHops(ret.before,
                         {p \in NodeSet(ret.before) \X NodeSet(ret.before) :
                             p[1] # p[2] /\ Reaches(ret.before, p[1], p[2])})

\* a weakly connected graph with a cycle of two nodes and a third node
\* that the cycle reaches in two hops: the mean is taken inside the cycle
C22_Witness ==
    /\ AfterCalculateAll
    /\ ret.raises = {}
    /\ WeaklyConnected(ret.before)
    /\ \E c \in LargestComponents(ret.before) :
           Cardinality(c) = 2 /\ c # NodeSet(ret.before)
    /\ \E s, t \in NodeSet(ret.before) :
           Reaches(ret.before, s, t) /\ Hops(ret.before, s, t) = 2
    /\ ret.value[1].average_path_length = R(1)

\* C23: when it does not raise, diameter is the longest shortest-path hop
\* count of the whole graph if the graph is strongly connected; otherwise
\* that of the largest strongly connected component if it has more than one
\* node; otherwise 0, so 0 for every graph with no directed cycle.
C23_Diameter ==
    (AfterCalculateAll /\ "diameter" \notin ret.raises) =>
        /\ IF \A s, t \in NodeSet(ret.before) : Reaches(ret.before, s, t)
           THEN ret.value[1].diameter = MaxHops(ret.before, NodeSet(ret.before))
           ELSE IF \E c \in LargestComponents(ret.before) : Cardinality(c) > 1
           THEN \E c \in LargestComponents(ret.before) :
                   ret.value[1].diameter = MaxHops(ret.before, c)
           ELSE ret.value[1].diameter = 0
        /\ (\A s, t \in NodeSet(ret.before) :
               s # t => ~(Reaches(ret.before, s, t) /\ Reaches(ret.before, t, s)))
               => ret.value[1].diameter = 0

\* a cycle of three nodes has diameter 2
C23_Witness ==
    /\ AfterCalculateAll
    /\ ret.raises = {}
    /\ number_of_nodes(ret.before) = 3
    /\ \A s, t \in NodeSet(ret.before) : Reaches(ret.before, s, t)
    /\ ret.value[1].diameter = 2

\* the largest betweenness among the node metrics nm
MaxBetweenness(nm) ==
    CHOOSE x \in {nm[v].betweenness_centrality : v \in DOMAIN nm} :
        \A v \in DOMAIN nm : RLe(nm[v].betweenness_centrality, x)

\* C29: in a non-empty graph every node of the largest betweenness is
\* flagged is_bottleneck, so at least one node is; when all nodes have the
\* same betweenness, 0 for all in particular, as when no shortest path has
\* two hops or more, every node is flagged and bottleneck_count is
\* node_count.  bottleneck_count is the number of nodes flagged.
C29_Bottlenecks ==
    AfterCalculateAll =>
        /\ \A v \in NodeSet(ret.before) :
               ret.value[2][v].betweenness_centrality = MaxBetweenness(ret.value[2])
                   => ret.value[2][v].is_bottleneck
        /\ \E v \in NodeSet(ret.before) : ret.value[2][v].is_bottleneck
        /\ ret.value[1].bottleneck_count =
               Cardinality({v \in NodeSet(ret.before) : ret.value[2][v].is_bottleneck})
        /\ (\A u, v \in NodeSet(ret.before) :
               ret.value[2][u].betweenness_centrality
                   = ret.value[2][v].betweenness_centrality)
               => /\ \A v \in NodeSet(ret.before) : ret.value[2][v].is_bottleneck
                  /\ ret.value[1].bottleneck_count = ret.value[1].node_count
        /\ ("betweenness" \notin ret.raises
            /\ \A s, t \in NodeSet(ret.before) :
                   Reaches(ret.before, s, t) => Hops(ret.before, s, t) < 2)
               => \A v \in NodeSet(ret.before) :
                      /\ ret.value[2][v].betweenness_centrality = R(0)
                      /\ ret.value[2][v].is_bottleneck

\* a graph in which one node lies on a shortest path and the others do
\* not: it is flagged and some other node is not
C29_Witness ==
    /\ AfterCalculateAll
    /\ ret.raises = {}
    /\ number_of_nodes(ret.before) >= 3
    /\ \E u, v \in NodeSet(ret.before) :
        /\ ret.value[2][u].is_bottleneck
        /\ ret.value[2][u].betweenness_centrality # R(0)
        /\ ~ret.value[2][v].is_bottleneck

(***************************************************************************)
(* Properties of GraphBuilder, checked under BuilderSpec.                   *)
(***************************************************************************)
\* a name of a dictionary that is empty once stripped, or has a character
\* outside letters, digits, hyphen, underscore and dot
EmptyOrIllegalName(name) ==
    \/ name = <<>>
    \/ \A i \in 1..Len(name) : name[i] = " "
    \/ \E i \in 1..Len(name) : name[i] \notin AllowedChars \cup {" "}

\* the dictionary fails validation in one of the ways of C14
FailsValidation(data) ==
    \/ \E i \in 1..Len(data.services) : EmptyOrIllegalName(data.services[i].name)
    \/ \E i \in 1..Len(data.edges) :
        \/ data.edges[i].source = data.edges[i].target
        \/ RLt(data.edges[i].call_rate, R(0))
        \/ RLt(data.edges[i].p50_latency, R(0))
        \/ RLt(data.edges[i].p95_latency, R(0))
        \/ RLt(data.edges[i].cost, R(0))
        \/ RLt(data.edges[i].error_rate, R(0))
        \/ RLt(R(1), data.edges[i].error_rate)

\* C14: build_from_dict on a dictionary that fails validation (a self-loop
\* edge, an empty or illegal service name, a negative rate, an error_rate
\* outside [0, 1]) raises, and the builder holds afterwards the graph it
\* held before, with every node, edge and attribute of it.
C14_FailedBuildLeavesGraph ==
    ret.op = "build_from_dict" =>
        /\ FailsValidation(ret.data) => ret.raised
        /\ ret.raised => graph = ret.before

\* a dictionary with a good edge and then a self-loop was refused by a
\* builder that held a graph with an edge, and holds it still
C14_Witness ==
    /\ ret.op = "build_from_dict"
    /\ ret.raised
    /\ Len(ret.data.services) = 2
    /\ Len(ret.data.edges) = 2
    /\ ret.data.edges[2].source = ret.data.edges[2].target
    /\ number_of_edges(ret.before) > 0
    /\ graph = ret.before

\* no edge from a node to itself, and one set of attributes per edge
SimpleDigraph(G) ==
    /\ \A e \in G.edges : e[1] # e[2]
    /\ DOMAIN G.attr = G.edges
    /\ G.edges \subseteq NodeSet(G) \X NodeSet(G)

\* C17: after any sequence of build_from_topology, build_from_dict,
\* add_shortcut_edge, remove_edge and copy, the builder's graph, and the
\* graph of a copy, has no self-loop and at most one edge per ordered pair.
C17_NoSelfLoopOneEdgePerPair ==
    /\ SimpleDigraph(graph)
    /\ ret.op = "copy" => SimpleDigraph(ret.value.graph)


(***************************************************************************)
(* Properties of the entry paths, checked under AnalyzeSpec.                *)
(***************************************************************************)
\* a run was given a goal that is none of the four, in any case of letters
UnknownGoalRun ==
    /\ ret.op = "analyze"
    /\ ret.goal \notin Goals \cup {"LATENCY"}

\* C15: on the command line and on POST /analyze, a run with an unknown
\* goal builds no graph and computes no metrics: it is rejected before.
C15_UnknownGoalRejectedFirst ==
    UnknownGoalRun => (~ret.built /\ ~ret.measured /\ ret.pc \in {"loaded", "rejected"})


(***************************************************************************)
(* Further properties of ShortcutOptimizer, checked under Spec.             *)
(***************************************************************************)
\* C28: for a graph that is not weakly connected, get_removal_candidates
\* returns the empty list for every k: no removal of one edge leaves the
\* trial graph weakly connected.
C28_DisconnectedNoRemoval ==
    (/\ AfterRemovalCandidates
     /\ number_of_nodes(ret.before) > 0
     /\ ~WeaklyConnected(ret.before)) =>
        /\ ret.value = <<>>
        /\ \A e \in ret.before.edges :
              ~WeaklyConnected(nx_remove_edge(ret.before, e[1], e[2]))

\* get_removal_candidates(k > 0) returned nothing for a graph of two
\* edges that do not touch
C28_Witness ==
    /\ AfterRemovalCandidates
    /\ ret.k > 0
    /\ number_of_edges(ret.before) >= 2
    /\ ~WeaklyConnected(ret.before)
    /\ ret.value = <<>>


\* the place of x in the sequence s that holds it
IndexIn(s, x) == CHOOSE i \in DOMAIN s : s[i] = x

\* the pair p comes before the pair q when sources, and for one source
\* targets, are taken in the node order of G
GeneratedBefore(G, p, q) ==
    \/ IndexIn(G.nodes, p[1]) < IndexIn(G.nodes, q[1])
    \/ /\ p[1] = q[1]
       /\ IndexIn(G.nodes, p[2]) < IndexIn(G.nodes, q[2])

\* C27: find_shortcuts is deterministic: it leaves the graph as it was, so
\* that a second call with the same weights, policy and k searches the same
\* graph and returns the same list; candidates are generated with sources
\* in node-insertion order and, for one source, targets in node-insertion
\* order, and returned candidates of equal score keep that order.
C27_DeterministicStableOrder ==
    AfterFindShortcuts =>
        /\ graph = ret.before
        /\ Len(ret.value) = IF ret.k < Len(ret.evaluated) THEN ret.k
                            ELSE Len(ret.evaluated)
        /\ \A i, j \in DOMAIN ret.candidates :
              i < j => GeneratedBefore(ret.before, ret.candidates[i], ret.candidates[j])
        /\ \A i, j \in DOMAIN ret.value :
              (i < j /\ ret.value[i].score = ret.value[j].score) =>
                  GeneratedBefore(ret.before,
                                  <<ret.value[i].source, ret.value[i].target>>,
                                  <<ret.value[j].source, ret.value[j].target>>)

\* find_shortcuts returned two candidates of one score
C27_Witness ==
    /\ AfterFindShortcuts
    /\ Len(ret.value) >= 2
    /\ ret.value[1].score = ret.value[2].score
    /\ <<ret.value[1].source, ret.value[1].target>>
           # <<ret.value[2].source, ret.value[2].target>>


(***************************************************************************)
(* Further properties of the entry paths, checked under AnalyzeSpec.        *)
(***************************************************************************)
\* the shortcuts POST /analyze answers with for a topology, a goal, the
\* three weights of the options and k
HttpShortcuts(topology, goal, options, k) ==
    find_shortcuts(build_from_topology(topology),
                   OverrideWeights(set_goal(goal), options), k, DefaultPolicy)

\* C26: in POST /analyze find_shortcuts searches with the weights of
\* request.options, whatever the goal: the weights that set_goal installed
\* are overwritten first, and a request that differs in the goal alone is
\* answered with the same list of shortcuts.
C26_GoalHasNoEffect ==
    (ret.op = "analyze" /\ ret.path = "http" /\ ret.pc = "done") =>
        /\ ret.weights = ret.options
        /\ ret.shortcuts = find_shortcuts(graph, ret.options, ret.k, DefaultPolicy)
        /\ \A goal \in Goals :
              ret.shortcuts = HttpShortcuts(ret.topology, goal, ret.options, ret.k)

\* POST /analyze has answered a request for a goal whose weights would
\* have given another list than the default weights of its options did
C26_Witness ==
    /\ ret.op = "analyze"
    /\ ret.path = "http"
    /\ ret.pc = "done"
    /\ ret.goal # "balanced"
    /\ ret.options = DefaultWeights
    /\ ret.shortcuts # <<>>
    /\ ret.shortcuts # find_shortcuts(graph, set_goal(ret.goal), ret.k, DefaultPolicy)


(***************************************************************************)
(* Properties of ConnectionManager, checked under BroadcastSpec.            *)
(***************************************************************************)
\* the number of send_json calls the broadcast b made on ws
SendsTo(b, ws) == Cardinality({i \in DOMAIN b.sent : b.sent[i].connection = ws})

\* C24: a broadcast calls send_json once on every connection that is in
\* active_connections from its start to its end, whether or not a send to
\* another connection raises and whatever connect and disconnect calls for
\* other connections run at its awaits.
C24_BroadcastReachesAll ==
    broadcast.pc = "done" =>
        \A ws \in broadcast.throughout : SendsTo(broadcast, ws) = 1


(***************************************************************************)
(* Properties of the gamification endpoints, checked under ScoreSpec.       *)
(***************************************************************************)
\* the points that come with an achievement
BonusOf(id) ==
    IF id = "first_optimization" THEN FirstOptimizationBonus
    ELSE IF id = "hundred_optimizations" THEN HundredOptimizationsBonus
    ELSE PerfectScoreBonus

RECURSIVE SumOfBonuses(_)
\* the bonuses of the achievements of the set ids, each counted once
SumOfBonuses(ids) ==
    IF ids = {} THEN 0
    ELSE BonusOf(CHOOSE id \in ids : TRUE)
             + SumOfBonuses(ids \ {CHOOSE id \in ids : TRUE})

\* C25: whatever update_user_score and record_simulation calls have run,
\* and however they interleaved at their awaits, no achievement id is
\* twice in a user's achievements, and the user's score is the points
\* handed in plus the bonus of each achievement held, once (10, 500, 200);
\* a user handed 50 points and one completed optimization has score 60.
C25_AchievementsOnce ==
    \A user_id \in DOMAIN user_scores :
        /\ \A i, j \in DOMAIN user_scores[user_id].achievements :
              i # j => user_scores[user_id].achievements[i]
                           # user_scores[user_id].achievements[j]
        /\ user_scores[user_id].score =
               received[user_id].points
                   + SumOfBonuses(Range(user_scores[user_id].achievements))
        /\ received[user_id] = [points |-> 50, completed |-> 1] =>
               user_scores[user_id].score = 60

\* a user holds the three achievements, while a record_simulation call for
\* that user with an improvement of a half is suspended
C25_Witness ==
    \E user_id \in DOMAIN user_scores :
        /\ Range(user_scores[user_id].achievements)
               = {"first_optimization", "hundred_optimizations", "perfect_score"}
        /\ \E i \in DOMAIN calls :
              /\ calls[i].user_id = user_id
              /\ RLe(R(PerfectImprovement), calls[i].improvement)

\* first_optimization is held from one optimization on, hundred_optimizations
\* from a hundred on, and optimizations counts the updates with
\* optimization_completed that the user was handed
AchievementsFollowOptimizations ==
    \A user_id \in DOMAIN user_scores :
        /\ Has(user_scores[user_id], "first_optimization")
               <=> user_scores[user_id].optimizations >= 1
        /\ Has(user_scores[user_id], "hundred_optimizations")
               <=> user_scores[user_id].optimizations >= 100
        /\ user_scores[user_id].optimizations = received[user_id].completed

\* no user is dropped and no user's optimizations goes down
OptimizationsGrow ==
    \A user_id \in DOMAIN user_scores :
        /\ user_id \in DOMAIN user_scores'
        /\ user_scores'[user_id].optimizations >= user_scores[user_id].optimizations

\* C30: from empty stores and under get_user_score, update_user_score and
\* record_simulation, in every state each user has first_optimization
\* exactly when optimizations >= 1 and hundred_optimizations exactly when
\* optimizations >= 100; optimizations is the number of completed
\* optimization updates the user received, and it never decreases.
C30_OptimizationsCounted ==
    [](AchievementsFollowOptimizations) /\ [][OptimizationsGrow]_vars

\* a user is past a hundred optimizations, and another has none
C30_Witness ==
    /\ \E user_id \in DOMAIN user_scores :
          /\ user_scores[user_id].optimizations = 101
          /\ Has(user_scores[user_id], "hundred_optimizations")
    /\ \E user_id \in DOMAIN user_scores :
          /\ user_scores[user_id].optimizations = 0
          /\ user_scores[user_id].achievements = <<>>

====
